---- MODULE Spec2Model ----
(***************************************************************************)
(* A model of the constant-time snake game: the bit-packed array           *)
(* (bitpacking.py), the grid helper and the partitioned-grid engine        *)
(* (main.py: GridHelper, Game) and the game loop that drives the engine    *)
(* (main.py: play_game, main).                                             *)
(*                                                                         *)
(* Conventions.  A BitPackingArray is a record; its byte_array is a        *)
(* function from 0..n-1 to bytes, so that byte indices are the source's.   *)
(* A Python tuple coordinate (row, col) is the TLA+ tuple <<row, col>>.    *)
(* An engine operator takes and returns a record s = [g |-> the Game       *)
(* object's attributes, m |-> Game.extra_memory].  randrange(n) is an      *)
(* input r drawn from 0..n-1.  The locals of a method that are used more    *)
(* than once are the parameters of a helper operator.                      *)
(***************************************************************************)
EXTENDS Integers, Sequences, FiniteSets, TLC

VARIABLES
    settings,                \* gui.settings, as integers
    extra_memory,            \* Game.extra_memory, the class-level BitPackingArray
    game,                    \* the attributes of the current Game object
    pc,                      \* where main / play_game is waiting for events
    current_head_direction,  \* play_game's local of that name
    screen,                  \* the grid as last drawn by GUI.draw_grid
    message,                 \* the text last shown by GUI.set_messages
    ticks,                   \* snake moves made in this session (bounded)
    swaps,                   \* direct calls of swap made on a built Game (bounded)
    array,                   \* a BitPackingArray that owns its buffer, used on its own
    call,                    \* the last call made on array or on a view of it, and how it ended
    calls                    \* calls made on array and its views (bounded)

vars == <<settings, extra_memory, game, pc, current_head_direction, screen, message,
          ticks, swaps, array, call, calls>>

---------------------------------------------------------------------------
\* values of grid spaces
EMPTY == 0
SNAKE_UP == 1
SNAKE_RIGHT == 2
SNAKE_DOWN == 3
SNAKE_LEFT == 4
BUG == 5

\* the bounds of the model: the moves of one session, the direct calls of swap,
\* the calls made on an array used on its own, the direct writes of a grid,
\* and the direction keys that arrive in one frame of play_game
MaxTicks == 5
MaxSwaps == 2
MaxCalls == 2
MaxWrites == 2
MaxKeys == 2

---------------------------------------------------------------------------
\* integer helpers for Python's operators

Min(a, b) == IF a <= b THEN a ELSE b

\* x >> k
Shr(x, k) == x \div (2 ^ k)

\* x << k
Shl(x, k) == x * (2 ^ k)

\* x & ((1 << k) - 1)
LowBits(x, k) == x % (2 ^ k)

RECURSIVE bit_length(_)
bit_length(n) == IF n = 0 THEN 0 ELSE 1 + bit_length(n \div 2)

RECURSIVE Product(_)
Product(ds) == IF ds = << >> THEN 1 ELSE Head(ds) * Product(Tail(ds))

\* (total_bits // 8) + (total_bits % 8 != 0)
BytesFor(total_bits) == (total_bits \div 8) + (IF total_bits % 8 # 0 THEN 1 ELSE 0)

ZeroBytes(n) == [i \in 0 .. (n - 1) |-> 0]

---------------------------------------------------------------------------
\* bitpacking.py: BitPackingArray

\* BitPackingArray(dimensions, bits_per_index) without a bytearrayview
BitPackingArray(dimensions, bits_per_index) ==
    IF Len(dimensions) = 1 /\ dimensions[1] = 0
    THEN [byte_array |-> ZeroBytes(0), dimensions |-> dimensions,
          bits_per_index |-> bits_per_index, start_bit_offset |-> 0,
          current_dimension |-> 0, exc |-> ""]
    ELSE IF \E i \in 1 .. Len(dimensions) : dimensions[i] <= 0
    THEN [byte_array |-> ZeroBytes(0), dimensions |-> dimensions,
          bits_per_index |-> bits_per_index, start_bit_offset |-> 0,
          current_dimension |-> 0, exc |-> "ValueError"]
    ELSE IF bits_per_index <= 0
    THEN [byte_array |-> ZeroBytes(0), dimensions |-> dimensions,
          bits_per_index |-> bits_per_index, start_bit_offset |-> 0,
          current_dimension |-> 0, exc |-> "ValueError"]
    ELSE [byte_array |-> ZeroBytes(BytesFor(bits_per_index * Product(dimensions))),
          dimensions |-> dimensions,
          bits_per_index |-> bits_per_index, start_bit_offset |-> 0,
          current_dimension |-> 0, exc |-> ""]

\* a negative index read as its distance from the first element
actual_position_mirrored(pos, dimension_length) ==
    IF pos >= 0 THEN pos ELSE -pos

\* pos if pos >= 0 else dimension_length + pos
actual_position(pos, dimension_length) ==
    IF pos >= 0 THEN pos ELSE dimension_length + pos

\* index_generator raises IndexError for some component of position
index_out_of_range(arr, position) ==
    \E d \in 1 .. Min(Len(position), Len(arr.dimensions)) :
        LET a == actual_position(position[d], arr.dimensions[d])
        IN ~(0 <= a /\ a < arr.dimensions[d])

RECURSIVE fold_index(_, _, _, _)
fold_index(arr, position, i, which_bit) ==
    IF i > Len(position) THEN which_bit
    ELSE fold_index(arr, position, i + 1,
                    (which_bit * arr.dimensions[i])
                        + actual_position(position[i], arr.dimensions[i]))

\* the bit at which the element at position starts; divmod(which_bit, 8) of it
\* is (which_byte, byte_start_position)
get_actual_position(arr, position) ==
    LET first == actual_position(position[1], arr.dimensions[1])
        which_bit == fold_index(arr, position, 2, first)
    IN (which_bit * arr.bits_per_index) + arr.start_bit_offset

\* get that stops reading at the end of the element's first byte
get_rest_first_byte_only(byte_array, which_byte, bits_left_to_read, current_bit_position, value) ==
    value

RECURSIVE get_rest(_, _, _, _, _)
get_rest(byte_array, which_byte, bits_left_to_read, current_bit_position, value) ==
    IF bits_left_to_read >= 8
    THEN get_rest(byte_array, which_byte + 1, bits_left_to_read - 8,
                  current_bit_position + 8,
                  value + Shl(byte_array[which_byte], current_bit_position))
    ELSE IF bits_left_to_read > 0
    THEN value + Shl(LowBits(byte_array[which_byte], bits_left_to_read),
                     current_bit_position)
    ELSE value

get(arr, position) ==
    LET which_bit == get_actual_position(arr, position)
        which_byte == which_bit \div 8
        byte_start_position == which_bit % 8
        current_bit_position == Min(8 - byte_start_position, arr.bits_per_index)
        value == LowBits(Shr(arr.byte_array[which_byte], byte_start_position),
                         current_bit_position)
    IN get_rest(arr.byte_array, which_byte + 1,
                arr.bits_per_index - current_bit_position, current_bit_position, value)

RECURSIVE set_rest(_, _, _, _)
set_rest(byte_array, which_byte, bits_left_to_set, new_value) ==
    IF bits_left_to_set >= 8
    THEN set_rest([byte_array EXCEPT ![which_byte] = LowBits(new_value, 8)],
                  which_byte + 1, bits_left_to_set - 8, Shr(new_value, 8))
    ELSE IF bits_left_to_set > 0
    THEN [byte_array EXCEPT ![which_byte] =
              Shl(Shr(byte_array[which_byte], bits_left_to_set), bits_left_to_set)
                  + new_value]
    ELSE byte_array

\* a first byte that keeps none of the bits it held
set_first_byte_clearing(old_byte, byte_start_position, bits_left_in_first_byte, new_value) ==
    Shl(LowBits(new_value, bits_left_in_first_byte), byte_start_position)

\* the first byte after "setting first byte"
set_first_byte(old_byte, byte_start_position, bits_left_in_first_byte, new_value) ==
    LET first_byte_start_bits == LowBits(old_byte, byte_start_position)
        current_value_to_write == LowBits(new_value, bits_left_in_first_byte)
        b1 == Shr(old_byte, byte_start_position + bits_left_in_first_byte)
        b2 == Shl(b1, bits_left_in_first_byte)
        b3 == b2 + current_value_to_write
        b4 == Shl(b3, byte_start_position)
    IN b4 + first_byte_start_bits

\* the byte array after set(position, new_value)
set(arr, position, new_value) ==
    LET which_bit == get_actual_position(arr, position)
        which_byte == which_bit \div 8
        byte_start_position == which_bit % 8
        bits_left_in_first_byte == Min(8 - byte_start_position, arr.bits_per_index)
        bytes1 == [arr.byte_array EXCEPT ![which_byte] =
                      set_first_byte(arr.byte_array[which_byte], byte_start_position,
                                     bits_left_in_first_byte, new_value)]
    IN [arr EXCEPT !.byte_array =
            set_rest(bytes1, which_byte + 1,
                     arr.bits_per_index - bits_left_in_first_byte,
                     Shr(new_value, bits_left_in_first_byte))]

byte_count(byte_array) == Cardinality(DOMAIN byte_array)

\* one kind of error for every refused position
position_exc_one_kind(a, position) ==
    IF Len(position) # Len(a.dimensions) \/ index_out_of_range(a, position)
    THEN "ValueError" ELSE ""

\* what get_actual_position raises for position: the ValueError of its own
\* check, or the IndexError of index_generator
position_exc(a, position) ==
    IF Len(position) # Len(a.dimensions) THEN "ValueError"
    ELSE IF index_out_of_range(a, position) THEN "IndexError"
    ELSE ""

\* what self.byte_array[which_byte] raises when the buffer ends before the element
buffer_exc(a, position) ==
    IF get_actual_position(a, position) \div 8 >= byte_count(a.byte_array)
    THEN "IndexError" ELSE ""

\* get(position) as a call: the exception it raises, or the value it returns
call_get(a, position) ==
    IF position_exc(a, position) # ""
    THEN [exc |-> position_exc(a, position), value |-> 0]
    ELSE IF buffer_exc(a, position) # ""
    THEN [exc |-> buffer_exc(a, position), value |-> 0]
    ELSE [exc |-> "", value |-> get(a, position)]

\* set(position, new_value) as a call: the array after it, exc naming what it raised
call_set(a, position, new_value) ==
    IF position_exc(a, position) # "" THEN [a EXCEPT !.exc = position_exc(a, position)]
    ELSE IF buffer_exc(a, position) # "" THEN [a EXCEPT !.exc = buffer_exc(a, position)]
    ELSE set(a, position, new_value)

\* arr[idx] of a 1-dimensional array
BitPackingArray_getitem(arr, idx) == get(arr, <<idx>>)

\* arr[idx] = new_value without the check of new_value
BitPackingArray_setitem_unchecked(arr, idx, new_value) ==
    IF arr.exc # "" THEN arr
    ELSE IF Len(arr.dimensions) > 1 THEN [arr EXCEPT !.exc = "ValueError"]
    ELSE IF ~(0 <= actual_position(idx, arr.dimensions[1])
              /\ actual_position(idx, arr.dimensions[1]) < arr.dimensions[1])
    THEN [arr EXCEPT !.exc = "IndexError"]
    ELSE call_set(arr, <<idx>>, new_value)

\* arr[idx] = new_value; a raised exception is recorded in exc and ends the writes
BitPackingArray_setitem(arr, idx, new_value) ==
    IF arr.exc # "" THEN arr
    ELSE IF Len(arr.dimensions) > 1 THEN [arr EXCEPT !.exc = "ValueError"]
    ELSE IF ~(0 <= actual_position(idx, arr.dimensions[1])
              /\ actual_position(idx, arr.dimensions[1]) < arr.dimensions[1])
    THEN [arr EXCEPT !.exc = "IndexError"]
    ELSE IF ~(0 <= new_value /\ new_value < 2 ^ arr.bits_per_index)
    THEN [arr EXCEPT !.exc = "ValueError"]
    ELSE call_set(arr, <<idx>>, new_value)

\* a reshape that resizes the buffer and keeps the bytes it held
reshape_keeping_bytes(arr, dimensions, bits_per_index) ==
    [arr EXCEPT !.byte_array =
                    [i \in 0 .. (BytesFor(bits_per_index * Product(dimensions)) - 1) |->
                        IF i \in DOMAIN arr.byte_array THEN arr.byte_array[i] ELSE 0],
                !.bits_per_index = bits_per_index,
                !.dimensions = dimensions]

\* reshape without the question whether the object is a view
reshape_any_object(arr, dimensions, bits_per_index) ==
    IF Len(dimensions) = 1 /\ dimensions[1] = 0
    THEN [arr EXCEPT !.byte_array = ZeroBytes(0),
                     !.bits_per_index = bits_per_index,
                     !.dimensions = dimensions]
    ELSE IF \E i \in 1 .. Len(dimensions) : dimensions[i] <= 0
    THEN [arr EXCEPT !.exc = "ValueError"]
    ELSE IF bits_per_index <= 0
    THEN [arr EXCEPT !.exc = "ValueError"]
    ELSE [arr EXCEPT !.byte_array =
                         ZeroBytes(BytesFor(bits_per_index * Product(dimensions))),
                     !.bits_per_index = bits_per_index,
                     !.dimensions = dimensions]

\* reshape(dimensions, bits_per_index); an object made by __getitem__ holds a
\* memoryview and has current_dimension > 0
reshape(arr, dimensions, bits_per_index) ==
    IF arr.current_dimension > 0 THEN [arr EXCEPT !.exc = "ValueError"]
    ELSE IF Len(dimensions) = 1 /\ dimensions[1] = 0
    THEN [arr EXCEPT !.byte_array = ZeroBytes(0),
                     !.bits_per_index = bits_per_index,
                     !.dimensions = dimensions]
    ELSE IF \E i \in 1 .. Len(dimensions) : dimensions[i] <= 0
    THEN [arr EXCEPT !.exc = "ValueError"]
    ELSE IF bits_per_index <= 0
    THEN [arr EXCEPT !.exc = "ValueError"]
    ELSE [arr EXCEPT !.byte_array =
                         ZeroBytes(BytesFor(bits_per_index * Product(dimensions))),
                     !.bits_per_index = bits_per_index,
                     !.dimensions = dimensions]

---------------------------------------------------------------------------
\* main.py: GridHelper

GridHelper(width, height, bits_per_index, start_bit, bits_to_read, is_game_grid) ==
    [width |-> width, height |-> height, bits_per_index |-> bits_per_index,
     start_bit |-> start_bit, bits_to_read |-> bits_to_read,
     is_game_grid |-> is_game_grid]

\* (pos[0] * self.width) + pos[1], for a position or a value given as a tuple
coord_to_int(h, coord) == (coord[1] * h.width) + coord[2]

\* the value a grid reads from the record of cell pos
field_value(h, record, pos) ==
    IF h.is_game_grid THEN LowBits(Shr(record, h.start_bit), h.bits_to_read)
    ELSE IF LowBits(Shr(record, h.start_bit), h.bits_to_read) = 0 THEN pos
    ELSE LowBits(Shr(record, h.start_bit), h.bits_to_read) - 1

\* h[pos] for an integer pos, read from the array m
GridHelper_getitem(m, h, pos) == field_value(h, BitPackingArray_getitem(m, pos), pos)

\* the record rebuilt without the bits above the field
replace_field_dropping_end(h, record, new_value) ==
    Shl(new_value, h.start_bit) + LowBits(record, h.start_bit)

\* bits_at_end + (new_value << self.start_bit) + bits_at_start
replace_field(h, record, new_value) ==
    Shl(LowBits(Shr(record, h.start_bit + h.bits_to_read),
                h.bits_per_index - h.start_bit - h.bits_to_read),
        h.start_bit + h.bits_to_read)
    + Shl(new_value, h.start_bit)
    + LowBits(record, h.start_bit)

\* the value stored as it comes, for every grid
stored_value_plain(h, value) == value

\* new_value += not self.is_game_grid
stored_value(h, value) == value + (IF h.is_game_grid THEN 0 ELSE 1)

\* h[pos] = value for integers pos and value: the array after it
GridHelper_setitem(m, h, pos, value) ==
    IF m.exc # "" THEN m
    ELSE IF ~(0 <= stored_value(h, value)
              /\ stored_value(h, value) <= (2 ^ h.bits_to_read) - 1)
    THEN [m EXCEPT !.exc = "ValueError"]
    ELSE BitPackingArray_setitem(m, pos,
             replace_field(h, BitPackingArray_getitem(m, pos), stored_value(h, value)))

\* if not isinstance(pos, int): pos = (pos[0] * self.width) + pos[1]
\* (an integer argument is written <<n>> here, a pair <<row, col>>)
GridHelper_index(h, pos) == IF Len(pos) = 2 THEN coord_to_int(h, pos) ELSE pos[1]

\* h[pos] for either form of pos
GridHelper_read(m, h, pos) == GridHelper_getitem(m, h, GridHelper_index(h, pos))

\* h[pos] = new_value for either form of pos and of new_value
GridHelper_write(m, h, pos, new_value) ==
    GridHelper_setitem(m, h, GridHelper_index(h, pos), GridHelper_index(h, new_value))

---------------------------------------------------------------------------
\* main.py: Game

\* the three grids of a state s, read at a cell or partition index
game_grid(s, pos) == GridHelper_getitem(s.m, s.g.game_grid, pos)
key_grid(s, pos) == GridHelper_getitem(s.m, s.g.key_grid, pos)
partitioned_grid(s, pos) == GridHelper_getitem(s.m, s.g.partitioned_grid, pos)

set_game_grid(s, pos, value) ==
    [s EXCEPT !.m = GridHelper_setitem(s.m, s.g.game_grid, pos, value)]
set_key_grid(s, pos, value) ==
    [s EXCEPT !.m = GridHelper_setitem(s.m, s.g.key_grid, pos, value)]
set_partitioned_grid(s, pos, value) ==
    [s EXCEPT !.m = GridHelper_setitem(s.m, s.g.partitioned_grid, pos, value)]

\* a (row, col) coordinate as the integer the grids use for it
cell(s, coord) == coord_to_int(s.g.game_grid, coord)

\* swap writing one value at both positions of the partition
swap_writes_one_value(s, idx_1, idx_2, swap_value_1, swap_value_2) ==
    set_key_grid(
        set_key_grid(
            set_partitioned_grid(
                set_partitioned_grid(s, idx_1, swap_value_1),
                idx_2, swap_value_1),
            swap_value_2, idx_1),
        swap_value_1, idx_2)

\* swap leaving the key grid as it was
swap_writes_keys_kept(s, idx_1, idx_2, swap_value_1, swap_value_2) ==
    set_key_grid(
        set_key_grid(
            set_partitioned_grid(
                set_partitioned_grid(s, idx_1, swap_value_2),
                idx_2, swap_value_1),
            swap_value_2, idx_2),
        swap_value_1, idx_1)

\* the four writes of swap, swap_value_1 and swap_value_2 having been read
\* a swap that writes the key grid at the positions, not at the values
swap_writes_keys_at_positions(s, idx_1, idx_2, swap_value_1, swap_value_2) ==
    set_key_grid(
        set_key_grid(
            set_partitioned_grid(
                set_partitioned_grid(s, idx_1, swap_value_2),
                idx_2, swap_value_1),
            idx_1, swap_value_2),
        idx_2, swap_value_1)

swap_writes(s, idx_1, idx_2, swap_value_1, swap_value_2) ==
    set_key_grid(
        set_key_grid(
            set_partitioned_grid(
                set_partitioned_grid(s, idx_1, swap_value_2),
                idx_2, swap_value_1),
            swap_value_2, idx_1),
        swap_value_1, idx_2)

\* swap(idx_1, idx_2): the pair (swap_value_1, swap_value_2) it returns
swap_returns(s, idx_1, idx_2) == <<partitioned_grid(s, idx_1), partitioned_grid(s, idx_2)>>

\* swap(idx_1, idx_2): the state after it
\* (it returns the pair partitioned_grid[idx_1], partitioned_grid[idx_2] of before)
swap(s, idx_1, idx_2) ==
    swap_writes(s, idx_1, idx_2, partitioned_grid(s, idx_1), partitioned_grid(s, idx_2))

\* possible_bug_spawn_cycles of Game.__init__
possible_bug_spawn_cycles(total_grid_spaces, snake_spaces, min_bugs, max_bugs) ==
    IF max_bugs # min_bugs
    THEN ((total_grid_spaces - snake_spaces - max_bugs) \div (max_bugs - min_bugs))
         + (IF (total_grid_spaces - snake_spaces - max_bugs) % (max_bugs - min_bugs) # 0
            THEN 1 ELSE 0)
    ELSE 1

\* the attributes with the requested numbers of bugs stored as they come
init_attributes_unclamped(memory, width, height, min_bugs, max_bugs) ==
    LET total_grid_spaces == width * height
        snake_spaces == 5
        available_bug_spaces == total_grid_spaces - snake_spaces
        min_b == min_bugs
        max_b == max_bugs
        game_grid_bits ==
            bit_length(possible_bug_spawn_cycles(total_grid_spaces, snake_spaces,
                                                 min_b, max_b) + 5)
        other_grid_bits == bit_length(total_grid_spaces)
        bits_per_grid_space == (other_grid_bits * 2) + game_grid_bits
    IN [g |-> [snake_spaces |-> snake_spaces,
               available_bug_spaces |-> available_bug_spaces,
               min_bugs |-> min_b,
               max_bugs |-> max_b,
               bug_spaces |-> max_b,
               future_bug_spaces |-> 0,
               bug_spawn_cycle |-> 1,
               bug_hint_idx |-> total_grid_spaces - snake_spaces - max_b,
               tail |-> <<height \div 2, (width \div 2) - 3>>,
               head |-> <<height \div 2, (width \div 2) + 1>>,
               width |-> width,
               height |-> height,
               game_grid |-> GridHelper(width, height, bits_per_grid_space, 0,
                                        game_grid_bits, TRUE),
               key_grid |-> GridHelper(width, height, bits_per_grid_space,
                                       game_grid_bits, other_grid_bits, FALSE),
               partitioned_grid |-> GridHelper(width, height, bits_per_grid_space,
                                               game_grid_bits + other_grid_bits,
                                               other_grid_bits, FALSE)],
        m |-> reshape(memory, <<total_grid_spaces>>, bits_per_grid_space)]

\* the attributes with the game grid's field sized for the spawn cycles alone
init_attributes_narrow_tags(memory, width, height, min_bugs, max_bugs) ==
    LET total_grid_spaces == width * height
        snake_spaces == 5
        available_bug_spaces == total_grid_spaces - snake_spaces
        min_b == Min(available_bug_spaces, min_bugs)
        max_b == Min(available_bug_spaces, max_bugs)
        game_grid_bits ==
            bit_length(possible_bug_spawn_cycles(total_grid_spaces, snake_spaces,
                                                 min_b, max_b))
        other_grid_bits == bit_length(total_grid_spaces)
        bits_per_grid_space == (other_grid_bits * 2) + game_grid_bits
    IN [g |-> [snake_spaces |-> snake_spaces,
               available_bug_spaces |-> available_bug_spaces,
               min_bugs |-> min_b,
               max_bugs |-> max_b,
               bug_spaces |-> max_b,
               future_bug_spaces |-> 0,
               bug_spawn_cycle |-> 1,
               bug_hint_idx |-> total_grid_spaces - snake_spaces - max_b,
               tail |-> <<height \div 2, (width \div 2) - 3>>,
               head |-> <<height \div 2, (width \div 2) + 1>>,
               width |-> width,
               height |-> height,
               game_grid |-> GridHelper(width, height, bits_per_grid_space, 0,
                                        game_grid_bits, TRUE),
               key_grid |-> GridHelper(width, height, bits_per_grid_space,
                                       game_grid_bits, other_grid_bits, FALSE),
               partitioned_grid |-> GridHelper(width, height, bits_per_grid_space,
                                               game_grid_bits + other_grid_bits,
                                               other_grid_bits, FALSE)],
        m |-> reshape(memory, <<total_grid_spaces>>, bits_per_grid_space)]

\* Game.__init__ up to the grids: the attributes and the reshaped memory
init_attributes(memory, width, height, min_bugs, max_bugs) ==
    LET total_grid_spaces == width * height
        snake_spaces == 5
        available_bug_spaces == total_grid_spaces - snake_spaces
        min_b == Min(available_bug_spaces, min_bugs)
        max_b == Min(available_bug_spaces, max_bugs)
        game_grid_bits ==
            bit_length(possible_bug_spawn_cycles(total_grid_spaces, snake_spaces,
                                                 min_b, max_b) + 5)
        other_grid_bits == bit_length(total_grid_spaces)
        bits_per_grid_space == (other_grid_bits * 2) + game_grid_bits
    IN [g |-> [snake_spaces |-> snake_spaces,
               available_bug_spaces |-> available_bug_spaces,
               min_bugs |-> min_b,
               max_bugs |-> max_b,
               bug_spaces |-> max_b,
               future_bug_spaces |-> 0,
               bug_spawn_cycle |-> 1,
               bug_hint_idx |-> total_grid_spaces - snake_spaces - max_b,
               tail |-> <<height \div 2, (width \div 2) - 3>>,
               head |-> <<height \div 2, (width \div 2) + 1>>,
               width |-> width,
               height |-> height,
               game_grid |-> GridHelper(width, height, bits_per_grid_space, 0,
                                        game_grid_bits, TRUE),
               key_grid |-> GridHelper(width, height, bits_per_grid_space,
                                       game_grid_bits, other_grid_bits, FALSE),
               partitioned_grid |-> GridHelper(width, height, bits_per_grid_space,
                                               game_grid_bits + other_grid_bits,
                                               other_grid_bits, FALSE)],
        m |-> reshape(memory, <<total_grid_spaces>>, bits_per_grid_space)]

\* the five writes of one pass of the loop "setting initial snake spaces"
init_snake_writes(s, snake_segment, end_position) ==
    set_partitioned_grid(
        set_partitioned_grid(
            set_key_grid(
                set_key_grid(
                    set_game_grid(s, snake_segment, SNAKE_RIGHT),
                    snake_segment, end_position),
                end_position, snake_segment),
            snake_segment, end_position),
        end_position, snake_segment)

init_snake_segment(s, n) ==
    init_snake_writes(s,
        cell(s, <<s.g.height \div 2, ((s.g.width \div 2) - 3) + n>>),
        cell(s, <<s.g.height - 1, s.g.width - 1 - n>>))

RECURSIVE init_snake(_, _)
init_snake(s, n) ==
    IF n >= 5 THEN s ELSE init_snake(init_snake_segment(s, n), n + 1)

\* one pass of that loop tagging the first value swap returns, not the second
init_bug_first_value(s, n, r) ==
    [set_game_grid(swap(s, (s.g.width * s.g.height) - s.g.snake_spaces - n, r),
                   swap_returns(s, (s.g.width * s.g.height) - s.g.snake_spaces - n, r)[1],
                   BUG)
        EXCEPT !.g.available_bug_spaces = @ - 1]

\* one pass of the loop "setting initial bug spaces", randrange having returned r
init_bug(s, n, r) ==
    [set_game_grid(swap(s, (s.g.width * s.g.height) - s.g.snake_spaces - n, r),
                   swap_returns(s, (s.g.width * s.g.height) - s.g.snake_spaces - n, r)[2],
                   BUG)
        EXCEPT !.g.available_bug_spaces = @ - 1]

\* the states the loop can end in, over the values randrange can return
RECURSIVE init_bugs(_, _)
init_bugs(s, n) ==
    IF n > s.g.max_bugs THEN {s}
    ELSE UNION {init_bugs(init_bug(s, n, r), n + 1) :
                    r \in 0 .. (s.g.available_bug_spaces - 1)}

\* Game(width, height, min_bugs, max_bugs, snake_speed): the states it can build
Game(memory, width, height, min_bugs, max_bugs) ==
    init_bugs(init_snake(init_attributes(memory, width, height, min_bugs, max_bugs), 0), 1)

\* a free_memory that releases nothing
free_memory_kept(m) == m

\* free_memory
free_memory(m) == reshape(m, <<0>>, 0)

get_next_coord(coord, direction) ==
    <<coord[1] + <<-1, 0, 1, 0>>[(direction - SNAKE_UP) + 1],
      coord[2] + <<0, 1, 0, -1>>[(direction - SNAKE_UP) + 1]>>

\* the cursor wrapping one address too far at either end
change_bug_hint_wide(g, backwards) ==
    [g EXCEPT !.bug_hint_idx =
        IF g.bug_hint_idx + (IF backwards THEN -1 ELSE 1)
               < (g.available_bug_spaces + g.future_bug_spaces) - 1
        THEN g.available_bug_spaces + g.future_bug_spaces + g.bug_spaces - 1
        ELSE IF g.bug_hint_idx + (IF backwards THEN -1 ELSE 1)
                    > g.available_bug_spaces + g.future_bug_spaces + g.bug_spaces
        THEN g.available_bug_spaces + g.future_bug_spaces
        ELSE g.bug_hint_idx + (IF backwards THEN -1 ELSE 1)]

\* change_bug_hint(backwards): the attributes after it
change_bug_hint(g, backwards) ==
    LET idx == g.bug_hint_idx + (IF backwards THEN -1 ELSE 1)
    IN [g EXCEPT !.bug_hint_idx =
           IF idx < g.available_bug_spaces + g.future_bug_spaces
           THEN g.available_bug_spaces + g.future_bug_spaces + g.bug_spaces - 1
           ELSE IF idx >= g.available_bug_spaces + g.future_bug_spaces + g.bug_spaces
           THEN g.available_bug_spaces + g.future_bug_spaces
           ELSE idx]

\* the old tail cell rewritten, the tail left where it was
advance_tail_stuck(s, tail_value) ==
    set_game_grid(s, cell(s, s.g.tail), tail_value)

\* old_tail_coord = self.tail; self.tail = get_next_coord(...);
\* self.game_grid[old_tail_coord] = tail_value
advance_tail(s, tail_value) ==
    [set_game_grid(s, cell(s, s.g.tail), tail_value)
        EXCEPT !.g.tail = get_next_coord(s.g.tail, game_grid(s, cell(s, s.g.tail)))]

\* the head advanced without the direction written to the cell it leaves
advance_head_old_tag_kept(s, next_head_coord, direction) ==
    [set_game_grid(s, cell(s, next_head_coord), direction) EXCEPT !.g.head = next_head_coord]

\* self.game_grid[self.head] = direction; self.head = next_head_coord;
\* self.game_grid[next_head_coord] = direction
advance_head(s, next_head_coord, direction) ==
    [set_game_grid(set_game_grid(s, cell(s, s.g.head), direction),
                   cell(s, next_head_coord), direction)
        EXCEPT !.g.head = next_head_coord]

move_into_empty(s, next_head_coord, direction) ==
    advance_head(
        advance_tail(
            swap(s, key_grid(s, cell(s, s.g.tail)), key_grid(s, cell(s, next_head_coord))),
            EMPTY),
        next_head_coord, direction)

\* move_into_future_bug after its first swap, when the old tail cell was not
\* chosen: the second swap, the writes, and the new future bug at bug_location
relocate_future_bug(s, next_head_coord, direction, random_partitioned_grid_idx, partitioned_head_idx, bug_location) ==
    set_game_grid(
        advance_head(
            advance_tail(swap(s, random_partitioned_grid_idx, partitioned_head_idx), EMPTY),
            next_head_coord, direction),
        bug_location, BUG + s.g.bug_spawn_cycle)

\* move_into_future_bug keeping the hidden bug in the old tail cell whatever
\* randrange returned
choose_future_bug_always_tail(s, next_head_coord, direction, random_partitioned_grid_idx, partitioned_head_idx) ==
    advance_head(advance_tail(s, BUG + s.g.bug_spawn_cycle), next_head_coord, direction)

\* move_into_future_bug after its first swap
choose_future_bug(s, next_head_coord, direction, random_partitioned_grid_idx, partitioned_head_idx) ==
    IF random_partitioned_grid_idx = s.g.available_bug_spaces
    THEN advance_head(advance_tail(s, BUG + s.g.bug_spawn_cycle),
                      next_head_coord, direction)
    ELSE relocate_future_bug(s, next_head_coord, direction, random_partitioned_grid_idx,
                             partitioned_head_idx,
                             swap_returns(s, random_partitioned_grid_idx,
                                          partitioned_head_idx)[1])

\* move_into_future_bug with its locals
move_into_future_bug_at(s, next_head_coord, direction, r, partitioned_tail_idx, partitioned_head_idx) ==
    choose_future_bug(swap(s, partitioned_tail_idx, partitioned_head_idx),
                      next_head_coord, direction, r, partitioned_head_idx)

\* randrange(self.available_bug_spaces + 1) having returned r
move_into_future_bug(s, next_head_coord, direction, r) ==
    move_into_future_bug_at(s, next_head_coord, direction, r,
                            key_grid(s, cell(s, s.g.tail)),
                            key_grid(s, cell(s, next_head_coord)))

\* the new bug tagged BUG whatever the spawn cycle is
place_new_bug_untagged(s, r) ==
    IF s.g.available_bug_spaces > 0
    THEN set_game_grid([swap(s, r, s.g.available_bug_spaces - 1)
                           EXCEPT !.g.future_bug_spaces = @ + 1],
                       partitioned_grid(s, r), BUG)
    ELSE s

\* the new bug counted but its cell left EMPTY
place_new_bug_unmarked(s, r) ==
    IF s.g.available_bug_spaces > 0
    THEN [swap(s, r, s.g.available_bug_spaces - 1) EXCEPT !.g.future_bug_spaces = @ + 1]
    ELSE s

\* the new bug placed and tagged but not counted
place_new_bug_uncounted(s, r) ==
    IF s.g.available_bug_spaces > 0
    THEN set_game_grid(swap(s, r, s.g.available_bug_spaces - 1),
                       swap_returns(s, r, s.g.available_bug_spaces - 1)[1],
                       IF s.g.max_bugs # s.g.min_bugs
                       THEN BUG + s.g.bug_spawn_cycle ELSE BUG)
    ELSE s

\* move_into_bug, lines 261-269: a free cell becomes the new bug;
\* randrange(self.available_bug_spaces) having returned r
place_new_bug(s, r) ==
    IF s.g.available_bug_spaces > 0
    THEN set_game_grid([swap(s, r, s.g.available_bug_spaces - 1)
                           EXCEPT !.g.future_bug_spaces = @ + 1],
                       swap_returns(s, r, s.g.available_bug_spaces - 1)[1],
                       IF s.g.max_bugs # s.g.min_bugs
                       THEN BUG + s.g.bug_spawn_cycle ELSE BUG)
    ELSE s

\* available_bug_spaces decremented without its floor
take_available_space_unfloored(s) ==
    [s EXCEPT !.g.available_bug_spaces = @ - 1]

\* self.available_bug_spaces -= self.available_bug_spaces > 0
take_available_space(s) ==
    [s EXCEPT !.g.available_bug_spaces = @ - (IF @ > 0 THEN 1 ELSE 0)]

\* the fold made one bug too early
count_eaten_bug_early_fold(g) ==
    IF g.bug_spaces - 1 = g.min_bugs
    THEN [g EXCEPT !.snake_spaces = @ + 1,
                   !.bug_spaces = (@ - 1) + g.future_bug_spaces,
                   !.future_bug_spaces = 0,
                   !.bug_spawn_cycle = @ + 1]
    ELSE [g EXCEPT !.snake_spaces = @ + 1,
                   !.bug_spaces = @ - 1]

\* the fold that leaves bug_spawn_cycle as it is
count_eaten_bug_same_cycle(g) ==
    IF g.bug_spaces - 1 = g.min_bugs - 1
    THEN [g EXCEPT !.snake_spaces = @ + 1,
                   !.bug_spaces = (@ - 1) + g.future_bug_spaces,
                   !.future_bug_spaces = 0]
    ELSE [g EXCEPT !.snake_spaces = @ + 1,
                   !.bug_spaces = @ - 1]

\* the fold made one bug late, at bug_spaces = min_bugs - 2
count_eaten_bug_late_fold(g) ==
    IF g.bug_spaces - 1 = g.min_bugs - 2
    THEN [g EXCEPT !.snake_spaces = @ + 1,
                   !.bug_spaces = (@ - 1) + g.future_bug_spaces,
                   !.future_bug_spaces = 0,
                   !.bug_spawn_cycle = @ + 1]
    ELSE [g EXCEPT !.snake_spaces = @ + 1,
                   !.bug_spaces = @ - 1]

\* lines 276-281: the counters, and "future bug spaces become current bug spaces"
count_eaten_bug(g) ==
    IF g.bug_spaces - 1 = g.min_bugs - 1
    THEN [g EXCEPT !.snake_spaces = @ + 1,
                   !.bug_spaces = (@ - 1) + g.future_bug_spaces,
                   !.future_bug_spaces = 0,
                   !.bug_spawn_cycle = @ + 1]
    ELSE [g EXCEPT !.snake_spaces = @ + 1,
                   !.bug_spaces = @ - 1]

\* the hint cursor left where it was
adjust_bug_hint_never(g, partitioned_head_idx, touching_snake_idx) == g

\* the cursor of an eaten hinted bug sent to the address next to the snake
adjust_bug_hint_to_snake_edge(g, partitioned_head_idx, touching_snake_idx) ==
    IF g.bug_hint_idx = partitioned_head_idx
    THEN [g EXCEPT !.bug_hint_idx = touching_snake_idx]
    ELSE IF g.bug_hint_idx = touching_snake_idx
    THEN [g EXCEPT !.bug_hint_idx = partitioned_head_idx]
    ELSE g

\* lines 283-286: where the hint cursor goes
adjust_bug_hint(g, partitioned_head_idx, touching_snake_idx) ==
    IF g.bug_hint_idx = partitioned_head_idx
    THEN [g EXCEPT !.bug_hint_idx = g.available_bug_spaces + g.future_bug_spaces]
    ELSE IF g.bug_hint_idx = touching_snake_idx
    THEN [g EXCEPT !.bug_hint_idx = partitioned_head_idx]
    ELSE g

\* move_into_bug with its locals
move_into_bug_at(s, next_head_coord, direction, r, partitioned_head_idx, touching_snake_idx) ==
    [advance_head(
        take_available_space(
            place_new_bug(swap(s, partitioned_head_idx, touching_snake_idx), r)),
        next_head_coord, direction)
        EXCEPT !.g = adjust_bug_hint(count_eaten_bug(@),
                                     partitioned_head_idx, touching_snake_idx)]

move_into_bug(s, next_head_coord, direction, r) ==
    move_into_bug_at(s, next_head_coord, direction, r,
        key_grid(s, cell(s, next_head_coord)),
        s.g.available_bug_spaces + s.g.bug_spaces + s.g.future_bug_spaces - 1)

---------------------------------------------------------------------------
\* main.py: GUI.draw_grid, for a grid of at most 15 x 15 (every board here)

\* get_grid_color for a cell on the grid
get_grid_color(grid_value, bug_spawn_cycle) ==
    IF grid_value = 0 THEN <<200, 200, 200>>
    ELSE IF SNAKE_UP <= grid_value /\ grid_value <= SNAKE_LEFT THEN <<255, 243, 128>>
    ELSE IF BUG <= grid_value /\ grid_value < BUG + bug_spawn_cycle THEN <<65, 163, 23>>
    ELSE IF grid_value = BUG + bug_spawn_cycle THEN <<200, 200, 200>>
    ELSE <<106, 13, 173>>

\* draw_grid_not_centered_on_head: the colour drawn for each cell (row-major)
draw_grid(s) ==
    [c \in 0 .. ((s.g.width * s.g.height) - 1) |->
        get_grid_color(game_grid(s, c), s.g.bug_spawn_cycle)]

NoScreen == << >>

\* the messages of set_messages
Message(text) == [text |-> text, snake |-> << >>, bug |-> << >>]

\* bug_hint_x, bug_hint_y
bug_hint_xy(bug_hint_coord, width) ==
    <<bug_hint_coord % width, bug_hint_coord \div width>>

\* f"snake: ({next_head_x}, {next_head_y})", f"bug: ({bug_hint_x}, {bug_hint_y})"
PositionMessage(s, next_head_coord) ==
    [text |-> "snake, bug",
     snake |-> <<next_head_coord[2], next_head_coord[1]>>,
     bug |-> bug_hint_xy(partitioned_grid(s, s.g.bug_hint_idx), s.g.width)]

---------------------------------------------------------------------------
\* the state machine: main and play_game

\* the Game object between sessions
NoGame == [width |-> 0, height |-> 0]

\* what the configuration provider can supply: <<width, height, min_bugs, max_bugs>>
\* for boards of one, two and three rows on which the snake of five fits
Configurations ==
    {<<6, 1, 1, 1>>, <<6, 1, 0, 3>>,
     <<7, 1, 0, 0>>, <<7, 1, 1, 1>>, <<7, 1, 1, 2>>, <<7, 1, 2, 2>>,
     <<6, 2, 0, 1>>, <<6, 2, 1, 2>>,
     <<6, 3, 1, 1>>}

Settings ==
    {[width |-> c[1], height |-> c[2], min_bugs |-> c[3], max_bugs |-> c[4]] :
        c \in Configurations}

\* Game.extra_memory when no session holds it
FreedMemory == BitPackingArray(<<0>>, 0)

\* no call has been made on arr
NoCall == [op |-> "", exc |-> "", value |-> 0]

\* the sessions Game(...) can build on the freed memory, by settings
Sessions ==
    [cfg \in Settings |->
        Game(FreedMemory, cfg.width, cfg.height, cfg.min_bugs, cfg.max_bugs)]

S == [g |-> game, m |-> extra_memory]

Init ==
    /\ settings \in Settings
    /\ extra_memory = BitPackingArray(<<0>>, 0)
    /\ game = NoGame
    /\ pc = "menu"
    /\ current_head_direction = 0
    /\ screen = NoScreen
    /\ message = Message("")
    /\ ticks = 0
    /\ swaps = 0
    /\ array = FreedMemory
    /\ call = NoCall
    /\ calls = 0

\* main, lines 686-700: the Game s is built and "press any key to start" is shown
ShowSession(s) ==
    /\ extra_memory' = s.m
    /\ game' = s.g
    /\ screen' = draw_grid(s)
    /\ pc' = "waiting"
    /\ message' = Message("press any key to start")
    /\ current_head_direction' = 0
    /\ ticks' = 0
    /\ UNCHANGED <<settings, swaps, array, call, calls>>

NewSession(memory) ==
    \E s \in (IF memory = FreedMemory
              THEN Sessions[settings]
              ELSE Game(memory, settings.width, settings.height,
                        settings.min_bugs, settings.max_bugs)) :
        ShowSession(s)

\* main, lines 701-708: the session is over and no other is started
EndSession(next_pc) ==
    /\ extra_memory' = free_memory(extra_memory)
    /\ game' = NoGame
    /\ pc' = next_pc
    /\ current_head_direction' = 0
    /\ screen' = NoScreen
    /\ message' = Message("")
    /\ ticks' = 0
    /\ UNCHANGED <<settings, swaps, array, call, calls>>

\* the CONFIG screen, left with new settings
Configure ==
    /\ pc = "menu"
    /\ settings' \in Settings
    /\ UNCHANGED <<extra_memory, game, pc, current_head_direction, screen, message, ticks, swaps, array, call, calls>>

\* the START button
Start ==
    /\ pc = "menu"
    /\ NewSession(extra_memory)

\* a key at "press any key to start": play_game begins (lines 586-593)
Begin ==
    /\ pc = "waiting"
    /\ pc' = "playing"
    /\ current_head_direction' = game_grid(S, cell(S, game.head))
    /\ message' = PositionMessage(S, game.head)
    /\ UNCHANGED <<settings, extra_memory, game, screen, ticks, swaps, array, call, calls>>

\* the BACK button while a session is waiting, playing or over
Back ==
    /\ pc \in {"waiting", "playing", "lost", "won"}
    /\ EndSession("menu")

\* the window is closed while a session is waiting, playing or over
Quit ==
    /\ pc \in {"waiting", "playing", "lost", "won"}
    /\ EndSession("exited")

\* a key at "you lose" or "you win": play_game returns, main frees the memory
\* and builds the next Game
Reset ==
    /\ pc \in {"lost", "won"}
    /\ NewSession(free_memory(extra_memory))

\* lines 623-626, the cursor having moved: g is the Game after change_bug_hint
HintChanged(g) ==
    /\ game' = g
    /\ message' = PositionMessage([g |-> g, m |-> extra_memory], g.head)

\* z or x while playing
ChangeBugHint(backwards) ==
    /\ pc = "playing"
    /\ HintChanged(change_bug_hint(game, backwards))
    /\ UNCHANGED <<settings, extra_memory, pc, current_head_direction, screen, ticks, swaps, array, call, calls>>

Opposite(direction) ==
    CASE direction = SNAKE_UP -> SNAKE_DOWN
      [] direction = SNAKE_RIGHT -> SNAKE_LEFT
      [] direction = SNAKE_DOWN -> SNAKE_UP
      [] direction = SNAKE_LEFT -> SNAKE_RIGHT

\* the direction keys (w, d, s and a take the branches of the arrows)
Keys == {"K_UP", "K_RIGHT", "K_DOWN", "K_LEFT"}

\* the key handler with no test of the head's direction
key_down_unfiltered(head_direction, direction, key) ==
    IF key = "K_UP" THEN SNAKE_UP
    ELSE IF key = "K_RIGHT" THEN SNAKE_RIGHT
    ELSE IF key = "K_DOWN" THEN SNAKE_DOWN
    ELSE IF key = "K_LEFT" THEN SNAKE_LEFT
    ELSE direction

\* lines 606-614: play_game's local direction after one KEYDOWN event
key_down(head_direction, direction, key) ==
    IF key = "K_UP" /\ head_direction # SNAKE_DOWN THEN SNAKE_UP
    ELSE IF key = "K_RIGHT" /\ head_direction # SNAKE_LEFT THEN SNAKE_RIGHT
    ELSE IF key = "K_DOWN" /\ head_direction # SNAKE_UP THEN SNAKE_DOWN
    ELSE IF key = "K_LEFT" /\ head_direction # SNAKE_RIGHT THEN SNAKE_LEFT
    ELSE direction

\* lines 599-626: the local direction after the events of one frame, 0 for None
RECURSIVE frame_direction(_, _, _)
frame_direction(head_direction, direction, events) ==
    IF events = << >> THEN direction
    ELSE frame_direction(head_direction,
                         key_down(head_direction, direction, Head(events)),
                         Tail(events))

\* the key events of one frame
KeySequences == UNION {[1 .. n -> Keys] : n \in 0 .. MaxKeys}

\* lines 627-629: the direction of the move, the head's own when no key set one
move_direction(s, head_direction, events) ==
    IF frame_direction(head_direction, 0, events) = 0
    THEN game_grid(s, cell(s, s.g.head))
    ELSE frame_direction(head_direction, 0, events)

\* what the local direction can be when the events of a frame are through,
\* for each direction of the head
FrameDirections ==
    [head_direction \in SNAKE_UP .. SNAKE_LEFT |->
        {frame_direction(head_direction, 0, events) : events \in KeySequences}]

\* the directions a move of play_game can take
Directions ==
    {IF direction = 0 THEN game_grid(S, cell(S, game.head)) ELSE direction :
        direction \in FrameDirections[current_head_direction]}

on_board(g, coord) ==
    /\ 0 <= coord[1]
    /\ coord[1] < g.height
    /\ 0 <= coord[2]
    /\ coord[2] < g.width

\* only the edge of the board loses
loses_off_board_only(s, next_head_coord) == ~on_board(s.g, next_head_coord)

\* line 632: the move loses
loses(s, next_head_coord) ==
    IF ~on_board(s.g, next_head_coord) THEN TRUE
    ELSE /\ SNAKE_UP <= game_grid(s, cell(s, next_head_coord))
         /\ game_grid(s, cell(s, next_head_coord)) <= SNAKE_LEFT

\* lines 647-652: the end of a move that goes on
AfterMove(s, next_head_coord) ==
    /\ extra_memory' = s.m
    /\ game' = s.g
    /\ screen' = draw_grid(s)
    /\ message' = PositionMessage(s, next_head_coord)
    /\ current_head_direction' = game_grid(s, cell(s, s.g.head))
    /\ pc' = "playing"
    /\ ticks' = ticks + 1
    /\ UNCHANGED <<settings, swaps, array, call, calls>>

\* lines 642-646: the move that fills the grid wins
AfterWin(s) ==
    /\ screen' = draw_grid(s)
    /\ extra_memory' = free_memory(s.m)
    /\ game' = s.g
    /\ message' = Message("you win, press any key to reset")
    /\ pc' = "won"
    /\ ticks' = ticks + 1
    /\ UNCHANGED <<settings, current_head_direction, swaps, array, call, calls>>

\* the win declared with one cell still to fill
AfterBug_early(s, next_head_coord) ==
    IF s.g.snake_spaces >= (s.g.width * s.g.height) - 1
    THEN AfterWin(s)
    ELSE AfterMove(s, next_head_coord)

\* lines 641-650: after move_into_bug
AfterBug(s, next_head_coord) ==
    IF s.g.snake_spaces = s.g.width * s.g.height
    THEN AfterWin(s)
    ELSE AfterMove(s, next_head_coord)

\* lines 627-635: the move is made in this direction and goes on
moves_on(direction) ==
    /\ pc = "playing"
    /\ ticks < MaxTicks
    /\ direction \in Directions
    /\ ~loses(S, get_next_coord(game.head, direction))

\* a move of play_game (lines 627-652) that loses
TickLoss(direction) ==
    /\ pc = "playing"
    /\ ticks < MaxTicks
    /\ direction \in Directions
    /\ loses(S, get_next_coord(game.head, direction))
    /\ extra_memory' = free_memory(extra_memory)
    /\ message' = Message("you lose, press any key to reset")
    /\ pc' = "lost"
    /\ ticks' = ticks + 1
    /\ UNCHANGED <<settings, game, current_head_direction, screen, swaps, array, call, calls>>

\* a move into an EMPTY cell
TickEmpty(direction) ==
    /\ moves_on(direction)
    /\ game_grid(S, cell(S, get_next_coord(game.head, direction))) = EMPTY
    /\ AfterMove(move_into_empty(S, get_next_coord(game.head, direction), direction),
                 get_next_coord(game.head, direction))

\* a move into a cell tagged 5 + bug_spawn_cycle
TickFutureBug(direction) ==
    /\ moves_on(direction)
    /\ game_grid(S, cell(S, get_next_coord(game.head, direction))) # EMPTY
    /\ game_grid(S, cell(S, get_next_coord(game.head, direction)))
           = 5 + game.bug_spawn_cycle
    /\ \E r \in 0 .. game.available_bug_spaces :
            AfterMove(move_into_future_bug(S, get_next_coord(game.head, direction),
                                           direction, r),
                      get_next_coord(game.head, direction))

\* a move into any other cell: a bug is eaten, and the game may be won
TickBug(direction) ==
    /\ moves_on(direction)
    /\ game_grid(S, cell(S, get_next_coord(game.head, direction))) # EMPTY
    /\ game_grid(S, cell(S, get_next_coord(game.head, direction)))
           # 5 + game.bug_spawn_cycle
    /\ \E r \in 0 .. (IF game.available_bug_spaces > 0
                      THEN game.available_bug_spaces - 1 ELSE 0) :
            AfterBug(move_into_bug(S, get_next_coord(game.head, direction),
                                   direction, r),
                     get_next_coord(game.head, direction))

Next ==
    \/ Configure
    \/ Start
    \/ Begin
    \/ Back
    \/ Quit
    \/ Reset
    \/ \E backwards \in BOOLEAN : ChangeBugHint(backwards)
    \/ \E direction \in SNAKE_UP .. SNAKE_LEFT : TickLoss(direction)
    \/ \E direction \in SNAKE_UP .. SNAKE_LEFT : TickEmpty(direction)
    \/ \E direction \in SNAKE_UP .. SNAKE_LEFT : TickFutureBug(direction)
    \/ \E direction \in SNAKE_UP .. SNAKE_LEFT : TickBug(direction)

Spec == Init /\ [][Next]_vars

---------------------------------------------------------------------------
\* swap called directly on a Game that was just built: any indexes, any number
\* of times (here at most MaxSwaps), on the boards of one row

SwapSettings == {cfg \in Settings : cfg.height = 1}

InitSwap ==
    /\ settings \in SwapSettings
    /\ \E s \in Sessions[settings] :
        /\ extra_memory = s.m
        /\ game = s.g
    /\ pc = "built"
    /\ current_head_direction = 0
    /\ screen = NoScreen
    /\ message = Message("")
    /\ ticks = 0
    /\ swaps = 0
    /\ array = FreedMemory
    /\ call = NoCall
    /\ calls = 0

SwapCall(idx_1, idx_2) ==
    /\ pc = "built"
    /\ swaps < MaxSwaps
    /\ extra_memory' = swap(S, idx_1, idx_2).m
    /\ swaps' = swaps + 1
    /\ UNCHANGED <<settings, game, pc, current_head_direction, screen, message, ticks,
                   array, call, calls>>

SwapSame(idx) == SwapCall(idx, idx)

NextSwap ==
    \/ \E idx_1 \in 0 .. ((game.width * game.height) - 1) :
        \E idx_2 \in (0 .. ((game.width * game.height) - 1)) \ {idx_1} :
            SwapCall(idx_1, idx_2)
    \/ \E idx \in 0 .. ((game.width * game.height) - 1) : SwapSame(idx)

SpecSwap == InitSwap /\ [][NextSwap]_vars

---------------------------------------------------------------------------
\* Game(...) called with any request for bugs, also more than the board holds

\* boards of one row with room for 1, 2 and 3 bugs, and boards of more rows
RowBoards == {<<6, 1>>, <<7, 1>>, <<8, 1>>}

WideBoards == {<<6, 2>>, <<7, 2>>, <<6, 3>>}

\* the arguments <<width, height, min_bugs, max_bugs>> Game is called with
Requests ==
    {<<b[1], b[2], mn, mx>> : b \in RowBoards, mn \in {0, 1, 2, 3, 9}, mx \in {0, 1, 2, 3, 9}}
        \cup {<<b[1], b[2], mn, mx>> : b \in WideBoards, mn \in 0 .. 2, mx \in 0 .. 2}
        \cup {<<6, 2, 3, 8>>, <<6, 2, 9, 9>>}

RequestedSettings ==
    {[width |-> c[1], height |-> c[2], min_bugs |-> c[3], max_bugs |-> c[4]] :
        c \in {r \in Requests : r[3] <= r[4]}}

InitRequested ==
    /\ settings \in RequestedSettings
    /\ extra_memory = FreedMemory
    /\ game = NoGame
    /\ pc = "menu"
    /\ current_head_direction = 0
    /\ screen = NoScreen
    /\ message = Message("")
    /\ ticks = 0
    /\ swaps = 0
    /\ array = FreedMemory
    /\ call = NoCall
    /\ calls = 0

\* the START button with these settings: Game(...) is called
Construct ==
    /\ pc = "menu"
    /\ \E s \in Game(extra_memory, settings.width, settings.height,
                    settings.min_bugs, settings.max_bugs) :
            ShowSession(s)

NextInit ==
    \/ Construct
    \/ Back

SpecInit == InitRequested /\ [][NextInit]_vars

---------------------------------------------------------------------------
\* bitpacking.py: a BitPackingArray used on its own, with its views

\* what __getitem__(idx) raises
getitem_exc(a, idx) ==
    IF 0 <= actual_position(idx, a.dimensions[1])
       /\ actual_position(idx, a.dimensions[1]) < a.dimensions[1]
    THEN "" ELSE "IndexError"

\* array[idx] of a 1-dimensional array as a call
call_getitem(a, idx) ==
    IF getitem_exc(a, idx) # "" THEN [exc |-> getitem_exc(a, idx), value |-> 0]
    ELSE call_get(a, <<idx>>)

\* a view is known by its attributes and by the bytes of the owner's buffer
\* its memoryview spans: first_byte up to stop_byte
whole(a) ==
    [dimensions |-> a.dimensions, bits_per_index |-> a.bits_per_index,
     start_bit_offset |-> a.start_bit_offset, current_dimension |-> a.current_dimension,
     first_byte |-> 0, stop_byte |-> byte_count(a.byte_array)]

\* a slice taken as if every slice began at the first bit of its first byte
sliced_at_byte_start(h, start_bit, stop_bit) ==
    [h EXCEPT !.start_bit_offset = 0,
              !.current_dimension = @ + 1,
              !.dimensions = Tail(@),
              !.first_byte = h.first_byte + Min(start_bit \div 8, h.stop_byte - h.first_byte),
              !.stop_byte = h.first_byte + Min(BytesFor(stop_bit), h.stop_byte - h.first_byte)]

\* the slice [start_byte:stop_byte] of the memoryview of h, in the owner's bytes
sliced(h, start_bit, stop_bit) ==
    [h EXCEPT !.start_bit_offset = start_bit % 8,
              !.current_dimension = @ + 1,
              !.dimensions = Tail(@),
              !.first_byte = h.first_byte + Min(start_bit \div 8, h.stop_byte - h.first_byte),
              !.stop_byte = h.first_byte + Min(BytesFor(stop_bit), h.stop_byte - h.first_byte)]

\* h[idx] of an array of more than one dimension, idx in range: the view
view(h, idx) ==
    sliced(h,
           ((h.bits_per_index * Product(Tail(h.dimensions)))
                * actual_position(idx, h.dimensions[1])) + h.start_bit_offset,
           ((h.bits_per_index * Product(Tail(h.dimensions)))
                * (actual_position(idx, h.dimensions[1]) + 1)) + h.start_bit_offset)

\* the BitPackingArray object of the view h of the owner a
seen_through(a, h) ==
    [byte_array |-> [i \in 0 .. ((h.stop_byte - h.first_byte) - 1) |->
                        a.byte_array[h.first_byte + i]],
     dimensions |-> h.dimensions, bits_per_index |-> h.bits_per_index,
     start_bit_offset |-> h.start_bit_offset, current_dimension |-> h.current_dimension,
     exc |-> ""]

\* the owner a after a call on the view h left the view object as w
written_through(a, h, w) ==
    [a EXCEPT !.byte_array =
                  [i \in DOMAIN a.byte_array |->
                      IF h.first_byte <= i /\ i < h.stop_byte
                      THEN w.byte_array[i - h.first_byte]
                      ELSE a.byte_array[i]],
              !.exc = w.exc]

\* a buffer grown to one byte more than the elements need
grown_with_spare(byte_array, total_bytes) ==
    [i \in 0 .. (((IF byte_count(byte_array) < total_bytes + 1
                   THEN total_bytes + 1 ELSE byte_count(byte_array))) - 1) |->
        IF i < byte_count(byte_array) THEN byte_array[i] ELSE 0]

\* "allocating more space if necessary"
grown(byte_array, total_bytes) ==
    [i \in 0 .. (((IF byte_count(byte_array) < total_bytes
                   THEN total_bytes ELSE byte_count(byte_array))) - 1) |->
        IF i < byte_count(byte_array) THEN byte_array[i] ELSE 0]

\* append(new_value) as a call
append(a, new_value) ==
    IF Len(a.dimensions) > 1 \/ a.current_dimension > 0 THEN [a EXCEPT !.exc = "ValueError"]
    ELSE IF ~(0 <= new_value /\ new_value < 2 ^ a.bits_per_index)
    THEN [a EXCEPT !.exc = "ValueError"]
    ELSE call_set([a EXCEPT !.byte_array =
                                grown(@, BytesFor(a.bits_per_index * (a.dimensions[1] + 1))),
                            !.dimensions = <<a.dimensions[1] + 1>>],
                  <<-1>>, new_value)

\* the arrays built: <<dimensions, bits_per_index>>
Shapes ==
    {<<<<4>>, 3>>, <<<<3>>, 19>>, <<<<2, 3>>, 5>>, <<<<2, 2, 2>>, 3>>,
     <<<<0>>, 9>>, <<<<0>>, 0>>}

\* arguments of reshape and of the constructor that they refuse
RefusedShapes == {<<<<2, 0>>, 3>>, <<<<-1>>, 3>>, <<<<2>>, 0>>, <<<<2>>, -1>>}

\* values that fit bits_per_index bits, and values that do not
FittingValues(bits_per_index) ==
    {(2 ^ bits_per_index) \div 3, (2 ^ bits_per_index) - 1}

UnfitValues(bits_per_index) == {-1, 2 ^ bits_per_index}

\* the tuples whose component i lies in -(d_i + extra) .. d_i - 1 + extra
RECURSIVE Coordinates(_, _)
Coordinates(dimensions, extra) ==
    IF dimensions = << >> THEN {<< >>}
    ELSE {<<x>> \o rest :
            x \in (-(Head(dimensions) + extra)) .. ((Head(dimensions) - 1) + extra),
            rest \in Coordinates(Tail(dimensions), extra)}

\* the positions of the elements, written with indexes from 0 up
Positions(dimensions) ==
    {position \in Coordinates(dimensions, 0) :
        \A i \in 1 .. Len(dimensions) : position[i] >= 0}

\* the same element, every index counted from the end
mirrored(dimensions, position) ==
    [i \in 1 .. Len(dimensions) |-> position[i] - dimensions[i]]

\* positions with one index just past either end of its dimension
OutOfRange(dimensions) ==
    UNION {{[i \in 1 .. Len(dimensions) |-> IF i = k THEN dimensions[k] ELSE 0],
            [i \in 1 .. Len(dimensions) |-> IF i = k THEN (-dimensions[k]) - 1 ELSE 0]} :
                k \in 1 .. Len(dimensions)}

\* the positions the calls are made with
CallPositions(dimensions) ==
    Positions(dimensions)
        \cup {mirrored(dimensions, position) : position \in Positions(dimensions)}
        \cup OutOfRange(dimensions)

\* positions with a component too many or too few
WrongLength(dimensions) ==
    {<<0>> \o [i \in 1 .. Len(dimensions) |-> 0], [i \in 1 .. (Len(dimensions) - 1) |-> 0]}

game_vars ==
    <<settings, extra_memory, game, pc, current_head_direction, screen, message,
      ticks, swaps>>

InitArray ==
    /\ settings \in {cfg \in Settings : cfg.width = 6 /\ cfg.height = 3}
    /\ extra_memory = FreedMemory
    /\ game = NoGame
    /\ pc = "array"
    /\ current_head_direction = 0
    /\ screen = NoScreen
    /\ message = Message("")
    /\ ticks = 0
    /\ swaps = 0
    /\ \E shape \in Shapes : array = BitPackingArray(shape[1], shape[2])
    /\ call = NoCall
    /\ calls = 0

\* the call op returned or raised: r is the array object after it
Returned(op, r, value) ==
    /\ calls < MaxCalls
    /\ array' = [r EXCEPT !.exc = ""]
    /\ call' = [op |-> op, exc |-> r.exc, value |-> value]
    /\ calls' = calls + 1
    /\ UNCHANGED game_vars

\* array.get(position)
DoGet(position) ==
    Returned("get", [array EXCEPT !.exc = call_get(array, position).exc],
             call_get(array, position).value)

\* array.set(position, new_value), new_value fitting
DoSet(position, new_value) ==
    Returned("set", call_set(array, position, new_value), 0)

\* array[idx] = new_value
DoSetItem(idx, new_value) ==
    Returned("setitem", BitPackingArray_setitem(array, idx, new_value), 0)

\* array.append(new_value)
DoAppend(new_value) == Returned("append", append(array, new_value), 0)

\* array.reshape(dimensions, bits_per_index)
DoReshape(dimensions, bits_per_index) ==
    Returned("reshape", reshape(array, dimensions, bits_per_index), 0)

\* array[k].set(position, new_value)
DoViewSet(k, position, new_value) ==
    /\ Len(array.dimensions) > 1
    /\ getitem_exc(array, k) = ""
    /\ Returned("view set",
                written_through(array, view(whole(array), k),
                    call_set(seen_through(array, view(whole(array), k)), position, new_value)),
                0)

\* array[k][j][idx] = new_value
DoInnerViewSetItem(k, j, idx, new_value) ==
    /\ Len(array.dimensions) = 3
    /\ getitem_exc(array, k) = ""
    /\ getitem_exc(seen_through(array, view(whole(array), k)), j) = ""
    /\ Returned("view setitem",
                written_through(array, view(view(whole(array), k), j),
                    BitPackingArray_setitem(
                        seen_through(array, view(view(whole(array), k), j)), idx, new_value)),
                0)

\* arr[k].append(new_value)
DoViewAppend(k, new_value) ==
    /\ Len(array.dimensions) > 1
    /\ getitem_exc(array, k) = ""
    /\ Returned("view append",
                written_through(array, view(whole(array), k),
                    append(seen_through(array, view(whole(array), k)), new_value)),
                0)

\* arr[k].reshape(dimensions, bits_per_index)
DoViewReshape(k, dimensions, bits_per_index) ==
    /\ Len(array.dimensions) > 1
    /\ getitem_exc(array, k) = ""
    /\ Returned("view reshape",
                written_through(array, view(whole(array), k),
                    reshape(seen_through(array, view(whole(array), k)),
                            dimensions, bits_per_index)),
                0)

NextArray ==
    \/ \E position \in CallPositions(array.dimensions) \cup WrongLength(array.dimensions) :
            DoGet(position)
    \/ \E position \in CallPositions(array.dimensions) \cup WrongLength(array.dimensions) :
        \E new_value \in FittingValues(array.bits_per_index) :
            DoSet(position, new_value)
    \/ \E idx \in (-(array.dimensions[1] + 1)) .. array.dimensions[1] :
        \E new_value \in FittingValues(array.bits_per_index)
                            \cup UnfitValues(array.bits_per_index) :
            DoSetItem(idx, new_value)
    \/ \E new_value \in FittingValues(array.bits_per_index)
                            \cup UnfitValues(array.bits_per_index) :
            DoAppend(new_value)
    \/ \E shape \in Shapes \cup RefusedShapes : DoReshape(shape[1], shape[2])
    \/ \E k \in (-array.dimensions[1]) .. (array.dimensions[1] - 1) :
        \E position \in CallPositions(Tail(array.dimensions)) :
            \E new_value \in FittingValues(array.bits_per_index) :
                DoViewSet(k, position, new_value)
    \/ \E k \in {-1, 0} : \E j \in {-2, 1} : \E idx \in -3 .. 2 :
        \E new_value \in FittingValues(array.bits_per_index)
                            \cup UnfitValues(array.bits_per_index) :
            DoInnerViewSetItem(k, j, idx, new_value)
    \/ \E k \in {-1, 0} : \E new_value \in {0, 2 ^ array.bits_per_index} :
            DoViewAppend(k, new_value)
    \/ \E k \in {-1, 0} : \E shape \in Shapes \cup RefusedShapes :
            DoViewReshape(k, shape[1], shape[2])

SpecArray == InitArray /\ [][NextArray]_vars

---------------------------------------------------------------------------
\* main.py: the three GridHelper views written on their own

\* the Game before its loops: every record of the buffer is zero (line 137)
Fresh(cfg) == init_attributes(FreedMemory, cfg.width, cfg.height, cfg.min_bugs, cfg.max_bugs)

\* the boards of one and two rows, built with one bug or with two
GridSettings ==
    {cfg \in Settings : cfg.height <= 2 /\ (cfg.max_bugs = 1 \/ cfg.height = 1) /\ cfg.max_bugs >= 1}

InitGrid ==
    /\ settings \in GridSettings
    /\ \E s \in Sessions[settings] \cup {Fresh(settings)} :
        /\ extra_memory = s.m
        /\ game = s.g
    /\ pc = "grid"
    /\ current_head_direction = 0
    /\ screen = NoScreen
    /\ message = Message("")
    /\ ticks = 0
    /\ swaps = 0
    /\ array = FreedMemory
    /\ call = NoCall
    /\ calls = 0

\* h[pos] = new_value returned or raised
GridWritten(op, h, pos, new_value) ==
    /\ pc = "grid"
    /\ calls < MaxWrites
    /\ extra_memory' = [GridHelper_write(extra_memory, h, pos, new_value) EXCEPT !.exc = ""]
    /\ call' = [op |-> op,
                exc |-> GridHelper_write(extra_memory, h, pos, new_value).exc,
                value |-> GridHelper_index(h, new_value),
                pos |-> GridHelper_index(h, pos)]
    /\ calls' = calls + 1
    /\ UNCHANGED <<settings, game, pc, current_head_direction, screen, message, ticks,
                   swaps, array>>

WriteGameGrid(pos, new_value) == GridWritten("game_grid", game.game_grid, pos, new_value)

WriteKeyGrid(pos, new_value) == GridWritten("key_grid", game.key_grid, pos, new_value)

WritePartitionedGrid(pos, new_value) ==
    GridWritten("partitioned_grid", game.partitioned_grid, pos, new_value)

\* the cells written: the first as an integer, one of the last row as a pair
WrittenPositions == {<<0>>, <<game.height - 1, 4>>}

\* the tags written to the game grid: two that fit and one too wide
WrittenTags ==
    {<<SNAKE_RIGHT>>, <<(2 ^ game.game_grid.bits_to_read) - 1>>,
     <<2 ^ game.game_grid.bits_to_read>>}

\* the cells written to the other grids: two on the board, as a pair and as
\* an integer, and the first integer too large for the field
WrittenCells ==
    {<<0>>, <<game.height - 1, game.width - 1>>,
     <<(2 ^ game.key_grid.bits_to_read) - 1>>}

NextGrid ==
    \/ \E pos \in WrittenPositions : \E new_value \in WrittenTags :
            WriteGameGrid(pos, new_value)
    \/ \E pos \in WrittenPositions : \E new_value \in WrittenCells :
            WriteKeyGrid(pos, new_value)
    \/ \E pos \in WrittenPositions : \E new_value \in WrittenCells :
            WritePartitionedGrid(pos, new_value)

SpecGrid == InitGrid /\ [][NextGrid]_vars

---------------------------------------------------------------------------
\* the properties

\* the cells of the grid, which are also the positions of the partition
Cells == 0 .. ((game.width * game.height) - 1)

\* a Game exists and holds its memory
Live == pc \in {"waiting", "playing"}

\* a Game exists; its memory may have been freed
HasGame == pc \in {"waiting", "playing", "lost", "won"}

is_snake_tag(tag) == SNAKE_UP <= tag /\ tag <= SNAKE_LEFT

\* what the zone of partition position i asks of the tag of its cell
zone_tag_ok(s, i) ==
    IF i < s.g.available_bug_spaces
    THEN game_grid(s, partitioned_grid(s, i)) = EMPTY
    ELSE IF i < s.g.available_bug_spaces + s.g.future_bug_spaces
    THEN game_grid(s, partitioned_grid(s, i)) = BUG + s.g.bug_spawn_cycle
    ELSE IF i < s.g.available_bug_spaces + s.g.future_bug_spaces + s.g.bug_spaces
    THEN /\ BUG <= game_grid(s, partitioned_grid(s, i))
         /\ game_grid(s, partitioned_grid(s, i)) < BUG + s.g.bug_spawn_cycle
    ELSE is_snake_tag(game_grid(s, partitioned_grid(s, i)))

\* C1: zone invariant. After Game.__init__ and after every move of a session,
\* the cell at each partition position carries the tag of that position's zone:
\* EMPTY in the free zone, BUG + bug_spawn_cycle in the future-bug zone, a tag
\* in [BUG, BUG + bug_spawn_cycle) in the bug zone, a snake direction elsewhere.
C1_ZoneInvariant == Live => \A i \in Cells : zone_tag_ok(S, i)

\* a session in its second spawn cycle in which all four zones are inhabited
C1_Witness ==
    /\ pc = "playing"
    /\ ticks >= 3
    /\ game.bug_spawn_cycle >= 2
    /\ game.available_bug_spaces >= 1
    /\ game.future_bug_spaces >= 1
    /\ game.bug_spaces >= 1

\* C2: permutation invariant. After Game.__init__ and after any calls
\* swap(i, j), i = j included, the key grid and the partition grid each hold
\* every cell index, and none twice.
C2_PermutationInvariant ==
    pc = "built" =>
        /\ {key_grid(S, c) : c \in Cells} = Cells
        /\ {partitioned_grid(S, i) : i \in Cells} = Cells
        /\ \A c \in Cells : \A d \in Cells :
            c # d => /\ key_grid(S, c) # key_grid(S, d)
                     /\ partitioned_grid(S, c) # partitioned_grid(S, d)

\* two swaps were made, and they were not moves of a game: the zones are broken
C2_Witness ==
    /\ pc = "built"
    /\ swaps >= 2
    /\ \E i \in Cells : ~zone_tag_ok(S, i)

\* C3: the key grid is the inverse of the partition grid, after Game.__init__
\* and after every move of a session.
C3_KeyIsInverse ==
    Live => \A i \in Cells : /\ key_grid(S, partitioned_grid(S, i)) = i
                             /\ partitioned_grid(S, key_grid(S, i)) = i

\* two bugs were eaten, and the partition is no longer the one built
C3_Witness ==
    /\ pc = "playing"
    /\ game.snake_spaces >= 7
    /\ \E i \in Cells : partitioned_grid(S, i) # i

\* a move of the session that did not lose
Moved == pc = "playing" /\ pc' \in {"playing", "won"} /\ ticks' = ticks + 1

\* the tag, before the move, of the cell the head entered
entered_tag == game_grid(S, cell(S, game'.head))

\* play_game sent the move to move_into_bug
Ate == Moved /\ entered_tag # EMPTY /\ entered_tag # 5 + game.bug_spawn_cycle

bug_cells(s) == {c \in 0 .. ((s.g.width * s.g.height) - 1) : game_grid(s, c) >= BUG}

counters_ok(g) ==
    /\ g.available_bug_spaces >= 0
    /\ g.future_bug_spaces >= 0
    /\ g.bug_spaces >= 0
    /\ g.snake_spaces >= 5
    /\ g.available_bug_spaces + g.future_bug_spaces + g.bug_spaces + g.snake_spaces
           = g.width * g.height

\* move_into_bug with no free cell left: the count stays 0 and no bug appears
no_bug_without_space ==
    (Ate /\ game.available_bug_spaces = 0) =>
        /\ game'.available_bug_spaces = 0
        /\ game'.future_bug_spaces + game'.bug_spaces
               = (game.future_bug_spaces + game.bug_spaces) - 1
        /\ IF pc' = "won"
           THEN game'.future_bug_spaces + game'.bug_spaces = 0
           ELSE bug_cells(S') \subseteq bug_cells(S)

\* C4: in every state of a Game the four zone sizes are not negative, the snake
\* has at least 5 cells and the sizes add up to width * height; and a
\* move_into_bug that starts with available_bug_spaces = 0 leaves it 0 and
\* places no new bug.
C4_Counters == [](HasGame => counters_ok(game)) /\ [][no_bug_without_space]_vars

\* a bug was eaten when no free cell was left, and bugs remain
C4_Witness ==
    /\ pc = "playing"
    /\ game.available_bug_spaces = 0
    /\ game.snake_spaces >= 6
    /\ game.bug_spaces >= 1

\* the direction of the move, known from where the head went
went(d) == get_next_coord(game.head, d) = game'.head

counters_unchanged ==
    /\ game'.snake_spaces = game.snake_spaces
    /\ game'.available_bug_spaces = game.available_bug_spaces
    /\ game'.future_bug_spaces = game.future_bug_spaces
    /\ game'.bug_spaces = game.bug_spaces
    /\ game'.bug_spawn_cycle = game.bug_spawn_cycle
    /\ game'.bug_hint_idx = game.bug_hint_idx

into_empty_effect ==
    (Moved /\ entered_tag = EMPTY) =>
        \E d \in SNAKE_UP .. SNAKE_LEFT :
            /\ went(d)
            /\ game_grid(S', cell(S, game.tail)) = EMPTY
            /\ game_grid(S', cell(S, game'.head)) = d
            /\ game_grid(S', cell(S, game.head)) = d
            /\ game'.tail = get_next_coord(game.tail, game_grid(S, cell(S, game.tail)))
            /\ counters_unchanged
            /\ \A c \in Cells \ {cell(S, game.tail), cell(S, game.head),
                                 cell(S, game'.head)} :
                    game_grid(S', c) = game_grid(S, c)

\* C5: move_into_empty(next, d), for an EMPTY cell next to the head, makes the
\* old tail cell EMPTY, writes d in the old and the new head cell, moves the
\* tail one step along the direction the old tail cell held, sets head to
\* next, and leaves the six counters and every other cell's tag as they were.
C5_MoveIntoEmpty == [][into_empty_effect]_vars

\* a session whose every move so far was a move_into_empty
C5_Witness ==
    /\ pc = "playing"
    /\ ticks >= 2
    /\ game.snake_spaces = 5
    /\ game.future_bug_spaces = 0
    /\ game.tail # <<game.height \div 2, (game.width \div 2) - 3>>

\* the move eats a current bug while a free cell is left
ate_with_space ==
    /\ Ate
    /\ BUG <= entered_tag
    /\ entered_tag < BUG + game.bug_spawn_cycle
    /\ game.available_bug_spaces > 0

\* the free-zone cells of before that bear a bug tag after
new_bug_cells ==
    {i \in 0 .. (game.available_bug_spaces - 1) :
        game_grid(S', partitioned_grid(S, i)) >= BUG}

eaten_with_space_effect ==
    /\ game'.snake_spaces = game.snake_spaces + 1
    /\ game'.available_bug_spaces = game.available_bug_spaces - 1
    /\ Cardinality(new_bug_cells) = 1
    /\ game'.tail = game.tail

\* C6: when the snake enters a current bug cell while available_bug_spaces > 0,
\* snake_spaces grows by 1, available_bug_spaces shrinks by 1, exactly one cell
\* of the former free zone bears a bug tag, the tail stays, and bug_spaces
\* shrinks by 1 unless the decremented count is min_bugs - 1: then the future
\* bugs, the new one among them, are added to it.
C6_ScenarioB ==
    [][ate_with_space =>
        /\ eaten_with_space_effect
        /\ game'.bug_spaces =
              IF game.bug_spaces - 1 = game.min_bugs - 1
              THEN (game.bug_spaces - 1) + (game.future_bug_spaces + 1)
              ELSE game.bug_spaces - 1]_vars

\* C6 as it was stated: bug_spaces is smaller by 1 after every such move
C6_Original ==
    [][ate_with_space =>
        /\ eaten_with_space_effect
        /\ game'.bug_spaces = game.bug_spaces - 1]_vars

\* a bug was eaten with a free cell left, and its successor still waits
C6_Witness ==
    /\ pc = "playing"
    /\ game.snake_spaces >= 6
    /\ game.bug_spawn_cycle = 1
    /\ game.future_bug_spaces >= 1

\* the bugs move_into_bug places: one if a free cell is left
placed == IF game.available_bug_spaces > 0 THEN 1 ELSE 0

fold_rule ==
    (pc = "playing" /\ pc' \in {"playing", "lost", "won"}) =>
        IF Ate /\ game.bug_spaces - 1 = game.min_bugs - 1
        THEN /\ game'.bug_spaces = (game.bug_spaces - 1) + game.future_bug_spaces + placed
             /\ game'.future_bug_spaces = 0
             /\ game'.bug_spawn_cycle = game.bug_spawn_cycle + 1
        ELSE /\ game'.bug_spawn_cycle = game.bug_spawn_cycle
             /\ Ate => /\ game'.bug_spaces = game.bug_spaces - 1
                       /\ game'.future_bug_spaces = game.future_bug_spaces + placed

\* C7: the fold. move_into_bug, exactly when the decremented bug_spaces is
\* min_bugs - 1, adds all future_bug_spaces to bug_spaces, sets
\* future_bug_spaces to 0 and adds 1 to bug_spawn_cycle; every other step of a
\* session leaves bug_spawn_cycle as it was.
C7_Fold == [][fold_rule]_vars

\* a fold of two future bugs, where min_bugs < max_bugs
C7_Witness ==
    /\ pc = "playing"
    /\ game.min_bugs < game.max_bugs
    /\ game.bug_spawn_cycle = 2
    /\ game.future_bug_spaces = 0
    /\ game.bug_spaces = 2

lost_now == pc = "playing" /\ pc' = "lost"

loss_rule ==
    /\ Moved => IF on_board(game, game'.head) THEN ~is_snake_tag(entered_tag) ELSE FALSE
    /\ lost_now =>
        /\ \E d \in Directions : loses(S, get_next_coord(game.head, d))
        /\ message'.text = "you lose, press any key to reset"
        /\ game' = game
        /\ extra_memory' = free_memory(extra_memory)
    /\ (pc = "lost" /\ pc' = "lost") => (game' = game /\ extra_memory' = extra_memory)

\* C8: a move whose next cell is off the board or holds a snake tag reports the
\* loss and is no move_into_*: head, tail, the counters and every other
\* attribute of the Game stay as they were, in that move and for the rest of
\* the session, and the only change of the packed memory is its release (the
\* reshape to (0,) of free_memory) in that move.
C8_Loss == [][loss_rule]_vars

\* C8 as it was stated: the fields of the packed memory stay as they were
C8_Original ==
    [][lost_now => (game' = game /\ extra_memory'.byte_array = extra_memory.byte_array)]_vars

\* a session lost after a bug was eaten
C8_Witness == pc = "lost" /\ ticks >= 2 /\ game.snake_spaces >= 6

\* C9: the win. It is reported exactly in the state a move leaves with
\* snake_spaces = width * height; the three other counters are 0 then, and the
\* grid drawn at that moment shows a snake segment in every cell.
C9_Win ==
    HasGame =>
        /\ (pc = "won") <=> (game.snake_spaces = game.width * game.height)
        /\ (pc = "won") <=> (message.text = "you win, press any key to reset")
        /\ pc = "won" =>
            /\ game.available_bug_spaces = 0
            /\ game.future_bug_spaces = 0
            /\ game.bug_spaces = 0
            /\ \A c \in Cells : screen[c] = get_grid_color(SNAKE_UP, game.bug_spawn_cycle)

\* a session won by its second move or a later one
C9_Witness == pc = "won" /\ ticks >= 2

in_hint_range(g) ==
    /\ g.available_bug_spaces <= g.bug_hint_idx
    /\ g.bug_hint_idx < g.available_bug_spaces + g.future_bug_spaces + g.bug_spaces

\* C10: the range of bug_hint_idx. In every state of a Game with
\* bug_spaces >= 1, which is every state before the win when min_bugs >= 1,
\* available_bug_spaces <= bug_hint_idx < available_bug_spaces +
\* future_bug_spaces + bug_spaces; with bug_spaces = 0 the cursor is at
\* available_bug_spaces + future_bug_spaces or one below it.
C10_HintRange ==
    HasGame =>
        /\ (Live /\ game.min_bugs >= 1) => game.bug_spaces >= 1
        /\ IF game.bug_spaces >= 1
           THEN in_hint_range(game)
           ELSE game.bug_hint_idx \in
                    {(game.available_bug_spaces + game.future_bug_spaces) - 1,
                     game.available_bug_spaces + game.future_bug_spaces}

\* C10 as it was stated: the range holds in every state, whatever min_bugs is
C10_Original == Live => in_hint_range(game)

\* after a bug was eaten the cursor is on the last bug, a future bug below it
C10_Witness ==
    /\ pc = "playing"
    /\ game.snake_spaces >= 6
    /\ game.future_bug_spaces >= 1
    /\ game.bug_spaces >= 1
    /\ game.bug_hint_idx =
           (game.available_bug_spaces + game.future_bug_spaces + game.bug_spaces) - 1

\* the first address of the current-bug zone
bug_zone_lo(g) == g.available_bug_spaces + g.future_bug_spaces

\* the cursor is on a current bug
on_current_bug(g) ==
    /\ g.bug_spaces >= 1
    /\ bug_zone_lo(g) <= g.bug_hint_idx
    /\ g.bug_hint_idx < bug_zone_lo(g) + g.bug_spaces

\* the Game with its cursor moved by step around the current-bug zone
cycled(g, step) ==
    [g EXCEPT !.bug_hint_idx =
        bug_zone_lo(g) + (((g.bug_hint_idx - bug_zone_lo(g)) + step) % g.bug_spaces)]

RECURSIVE forward_calls(_, _)
forward_calls(g, n) ==
    IF n = 0 THEN g ELSE forward_calls(change_bug_hint(g, FALSE), n - 1)

\* a step of play_game that is a press of z or x
hint_step == pc = "playing" /\ pc' = "playing" /\ ticks' = ticks

\* C11: change_bug_hint cycles inside the current-bug zone. With the cursor on
\* a current bug, the forward call moves it to lo + ((idx - lo + 1) mod
\* bug_spaces) and the backward call to lo + ((idx - lo - 1) mod bug_spaces);
\* forward then backward restores it, bug_spaces forward calls return to the
\* start, and the call changes nothing else of the Game or of its memory.
C11_HintCycles ==
    /\ [](Live =>
            /\ on_current_bug(game)
                 => /\ change_bug_hint(game, FALSE) = cycled(game, 1)
                    /\ change_bug_hint(game, TRUE) = cycled(game, -1)
                    /\ change_bug_hint(change_bug_hint(game, FALSE), TRUE) = game
                    /\ forward_calls(game, game.bug_spaces) = game
            /\ pc = "playing" => on_current_bug(game) \/ game.bug_spaces = 0)
    /\ [][(hint_step /\ on_current_bug(game)) =>
            /\ game' \in {cycled(game, 1), cycled(game, -1)}
            /\ extra_memory' = extra_memory]_vars

\* before any move, the cursor was taken from the first of two bugs to the last
C11_Witness ==
    /\ pc = "playing"
    /\ ticks = 0
    /\ game.bug_spaces = 2
    /\ game.bug_hint_idx = bug_zone_lo(game) + 1

\* every bug on the grid carries the tag BUG itself
plain_bugs(s) ==
    \A c \in 0 .. ((s.g.width * s.g.height) - 1) : game_grid(s, c) <= BUG

\* C12: when min_bugs = max_bugs after clamping, a bug eaten while bug_spaces =
\* min_bugs is a fold, so bug_spawn_cycle grows: it lies between 1 and 1 plus
\* the number of bugs eaten (snake_spaces - 4) and equals the latter as long as
\* bug_spaces = max_bugs; no future bug exists and every bug is tagged BUG
\* whatever the cycle is.
C12_CycleWhenMinIsMax ==
    (HasGame /\ game.min_bugs = game.max_bugs) =>
        /\ 1 <= game.bug_spawn_cycle
        /\ game.bug_spawn_cycle <= game.snake_spaces - 4
        /\ game.bug_spaces = game.max_bugs => game.bug_spawn_cycle = game.snake_spaces - 4
        /\ game.future_bug_spaces = 0
        /\ Live => plain_bugs(S)

\* C12 as it was stated: bug_spawn_cycle is 1 in every state of such a session
C12_Original ==
    (HasGame /\ game.min_bugs = game.max_bugs) => game.bug_spawn_cycle = 1

\* two bugs eaten where min_bugs = max_bugs = 1, and the session goes on
C12_Witness ==
    /\ pc = "playing"
    /\ game.min_bugs = game.max_bugs
    /\ game.bug_spaces = game.max_bugs
    /\ game.bug_spaces >= 1
    /\ game.snake_spaces >= 7
    /\ game.bug_spawn_cycle >= 3

---------------------------------------------------------------------------
\* properties of BitPackingArray on its own (SpecArray)

\* the values written when a property speaks of every value of the width
values_of_width(bits_per_index) ==
    IF bits_per_index <= 3 THEN 0 .. ((2 ^ bits_per_index) - 1)
    ELSE {0, 1, (2 ^ bits_per_index) \div 3, 2 ^ (bits_per_index - 1),
          (2 ^ bits_per_index) - 2, (2 ^ bits_per_index) - 1}

\* the element at position begins at a bit that is not the first of its byte
\* and has bits in at least that many bytes
straddles(a, position, bytes_touched) ==
    /\ get_actual_position(a, position) % 8 # 0
    /\ BytesFor((get_actual_position(a, position) % 8) + a.bits_per_index) >= bytes_touched

\* the valid positions, with every index from 0 up or every index from the end
ValidPositions(dimensions) ==
    Positions(dimensions)
        \cup {mirrored(dimensions, position) : position \in Positions(dimensions)}

\* after is the array a set(c, v) left: the set raised nothing and get(c) is v
round_trip(after, c, v) ==
    /\ after.exc = ""
    /\ call_get(after, c) = [exc |-> "", value |-> v]

\* C13: in an array of width b >= 1, whatever it holds, set(c, v) followed by
\* get(c) returns v, for every valid coordinate c (indexes of either sign)
\* and every v in [0, 2^b)
C13_RoundTrip ==
    array.bits_per_index >= 1 =>
        \A c \in ValidPositions(array.dimensions) :
            \A v \in values_of_width(array.bits_per_index) :
                round_trip(call_set(array, c, v), c, v)

\* a 19-bit element that starts at bit 6 of its byte and lies in four bytes
\* was set to all ones over an array that already held something else
C13_Witness ==
    /\ array.dimensions = <<3>> /\ array.bits_per_index = 19
    /\ calls = 2 /\ call.op = "set" /\ call.exc = ""
    /\ straddles(array, <<2>>, 4)
    /\ get(array, <<2>>) = (2 ^ 19) - 1
    /\ get(array, <<1>>) = (2 ^ 19) \div 3

\* the first and the last byte holding bits of the element at position
first_byte_of(a, position) == get_actual_position(a, position) \div 8

last_byte_of(a, position) ==
    ((get_actual_position(a, position) + a.bits_per_index) - 1) \div 8

\* after is what set(c, v) left of before: every other element reads as it
\* did, the buffer has the bytes it had, and those without a bit of the
\* element hold what they held
set_was_local(before, after, c) ==
    /\ \A other \in Positions(before.dimensions) \ {c} :
            call_get(after, other) = call_get(before, other)
    /\ DOMAIN after.byte_array = DOMAIN before.byte_array
    /\ \A i \in DOMAIN before.byte_array :
            (i < first_byte_of(before, c) \/ i > last_byte_of(before, c))
                => after.byte_array[i] = before.byte_array[i]
    /\ after.dimensions = before.dimensions
    /\ after.bits_per_index = before.bits_per_index

\* C14: in every array, set(c, v) with v in [0, 2^bits_per_index) leaves
\* get(c') as it was for every valid c' other than c and writes no byte
\* outside the bytes that hold the element; and every set the program made
\* was such a set
C14_SetIsLocal ==
    /\ [](\A c \in Positions(array.dimensions) :
            \A v \in FittingValues(array.bits_per_index) \cup {0} :
                set_was_local(array, call_set(array, c, v), c))
    /\ [][(call'.op = "set" /\ call'.exc = "")
            => \E c \in Positions(array.dimensions) : set_was_local(array, array', c)]_vars

\* the second of two sets wrote an element that shares a byte with the
\* element the first set wrote, and both values are there
C14_Witness ==
    /\ array.dimensions = <<4>> /\ array.bits_per_index = 3
    /\ calls = 2 /\ call.op = "set" /\ call.exc = ""
    /\ get(array, <<1>>) = 2
    /\ get(array, <<2>>) = 7
    /\ first_byte_of(array, <<1>>) = first_byte_of(array, <<2>>)
    /\ last_byte_of(array, <<2>>) = 1

\* position p of a lies in the slice named by the outer indexes prefix
in_slice(a, prefix, p) ==
    \A i \in 1 .. Len(prefix) : p[i] = actual_position(prefix[i], a.dimensions[i])

\* the set through the view h left the owner as written: it is the owner
\* after its own set at prefix + c, v is read there, and no element outside
\* the slice reads differently
set_through_view(a, written, prefix, c, v) ==
    /\ written = call_set(a, prefix \o c, v)
    /\ call_get(written, prefix \o c) = [exc |-> "", value |-> v]
    /\ \A p \in Positions(a.dimensions) :
            ~in_slice(a, prefix, p) => call_get(written, p) = call_get(a, p)

\* the view h = a[prefix] and its owner a show each other's elements
aliased(a, h, prefix) ==
    \A c \in Positions(h.dimensions) :
        /\ call_get(seen_through(a, h), c) = call_get(a, prefix \o c)
        /\ \A v \in {0, (2 ^ a.bits_per_index) - 1} :
            /\ set_through_view(a, written_through(a, h, call_set(seen_through(a, h), c, v)),
                                prefix, c, v)
            /\ call_get(seen_through(call_set(a, prefix \o c, v), h), c)
                    = [exc |-> "", value |-> v]

\* C15: for an array P of more than one dimension and an outer index k, the
\* view V = P[k] reads V.get(c) = P.get((k,) + c); a set through V is read
\* through P at (k,) + c and a set through P there is read through V; so it
\* is for V[j], a view of a view, and for slices that start inside a byte;
\* a set through a view changes no element of P outside the slice; and the
\* sets the program made through views were sets of P at (k,) + c
C15_ViewAliasing ==
    /\ [](Len(array.dimensions) > 1 =>
            \A k \in 0 .. (array.dimensions[1] - 1) :
                /\ aliased(array, view(whole(array), k), <<k>>)
                /\ Len(array.dimensions) = 3 =>
                    \A j \in 0 .. (array.dimensions[2] - 1) :
                        aliased(array, view(view(whole(array), k), j), <<k, j>>))
    /\ [][(call'.op \in {"view set", "view setitem"} /\ call'.exc = "")
            => \E p \in Positions(array.dimensions) :
                \E v \in FittingValues(array.bits_per_index) :
                    array' = set(array, p, v)]_vars

\* an element was set through a view of a view whose slice starts at bit 2
\* of its first byte, after an element of another slice had been set
C15_Witness ==
    /\ array.dimensions = <<2, 2, 2>>
    /\ calls = 2 /\ call.op = "view setitem" /\ call.exc = ""
    /\ view(view(whole(array), 1), 1).start_bit_offset = 2
    /\ view(whole(array), 1).start_bit_offset = 4
    /\ get(array, <<1, 1, 1>>) = 7
    /\ get(array, <<0, 1, 1>>) = 2

\* position with every index -k of a dimension of length n written n - k
from_start(dimensions, position) ==
    [i \in 1 .. Len(position) |->
        IF position[i] < 0 THEN dimensions[i] - (-position[i]) ELSE position[i]]

\* C16: in get, set, __getitem__ and __setitem__, for every dimension of
\* length n on its own and every k in 1 .. n, the index -k addresses the
\* element that n - k addresses
C16_NegativeIndexing ==
    /\ \A c \in Coordinates(array.dimensions, 0) :
        /\ call_get(array, c) = call_get(array, from_start(array.dimensions, c))
        /\ call_set(array, c, (2 ^ array.bits_per_index) - 1)
                = call_set(array, from_start(array.dimensions, c),
                           (2 ^ array.bits_per_index) - 1)
    /\ \A k \in 1 .. array.dimensions[1] :
        /\ getitem_exc(array, -k) = ""
        /\ Len(array.dimensions) = 1
            => /\ call_getitem(array, -k) = call_getitem(array, array.dimensions[1] - k)
               /\ \A v \in FittingValues(array.bits_per_index) :
                    BitPackingArray_setitem(array, -k, v)
                        = BitPackingArray_setitem(array, array.dimensions[1] - k, v)
        /\ Len(array.dimensions) > 1
            => view(whole(array), -k) = view(whole(array), array.dimensions[1] - k)
        /\ Len(array.dimensions) = 3
            => \A j \in 1 .. array.dimensions[2] :
                    view(view(whole(array), -k), -j)
                        = view(view(whole(array), array.dimensions[1] - k),
                               array.dimensions[2] - j)

\* two sets were made and the elements they wrote are read with indexes
\* counted from the end, in one dimension and in both
C16_Witness ==
    /\ array.dimensions = <<2, 3>>
    /\ calls = 2 /\ call.op = "set" /\ call.exc = ""
    /\ get(array, <<-1, -3>>) = 31 /\ get(array, <<1, 0>>) = 31
    /\ get(array, <<0, -1>>) = 10 /\ get(array, <<0, 2>>) = 10

\* after is what append(v) left of the 1-dimensional array before: one
\* element longer, v last, the earlier elements as they were, and a buffer of
\* exactly the bytes the elements need
appended(before, after, v) ==
    /\ after.exc = ""
    /\ after.dimensions = <<before.dimensions[1] + 1>>
    /\ after.bits_per_index = before.bits_per_index
    /\ call_get(after, <<before.dimensions[1]>>) = [exc |-> "", value |-> v]
    /\ \A i \in 0 .. (before.dimensions[1] - 1) :
            call_get(after, <<i>>) = call_get(before, <<i>>)
    /\ byte_count(after.byte_array)
            = BytesFor(after.dimensions[1] * after.bits_per_index)

\* the empty array of width b after append(v1), append(v2), append(v3)
three_appends(b, v1, v2, v3) ==
    append(append(append(BitPackingArray(<<0>>, b), v1), v2), v3)

\* the array holds exactly the values of the sequence, in its order
holds(a, values) ==
    /\ a.exc = ""
    /\ a.dimensions = <<Len(values)>>
    /\ \A i \in 1 .. Len(values) : call_get(a, <<i - 1>>) = [exc |-> "", value |-> values[i]]
    /\ byte_count(a.byte_array) = BytesFor(Len(values) * a.bits_per_index)

PositiveShapes == {shape \in Shapes : shape[1] # <<0>>}

\* a is the array of that shape with every element 0 and no byte to spare
all_zero(a, dimensions, bits_per_index) ==
    /\ a.exc = ""
    /\ a.dimensions = dimensions
    /\ a.bits_per_index = bits_per_index
    /\ byte_count(a.byte_array) = BytesFor(bits_per_index * Product(dimensions))
    /\ \A c \in Positions(dimensions) : call_get(a, c) = [exc |-> "", value |-> 0]

\* a is the empty array: dimension (0,) and a buffer of no byte
collapsed(a) == a.exc = "" /\ a.dimensions = <<0>> /\ byte_count(a.byte_array) = 0

\* C18: reshape(dims, b) with positive dims and b >= 1 on an owning array,
\* whatever it held, leaves dimensions dims, width b, a buffer of
\* ceil(b * product(dims) / 8) bytes and 0 in every element; reshape to (0,)
\* leaves a buffer of no byte, and a reshape after it builds an all-zero
\* array again; and every reshape the program made left such an array
C18_ReshapeZeroes ==
    /\ [](/\ \A shape \in PositiveShapes :
                /\ all_zero(reshape(array, shape[1], shape[2]), shape[1], shape[2])
                /\ all_zero(reshape(reshape(array, <<0>>, array.bits_per_index),
                                    shape[1], shape[2]),
                            shape[1], shape[2])
          /\ collapsed(reshape(array, <<0>>, array.bits_per_index))
          /\ collapsed(reshape(array, <<0>>, 0)))
    /\ [][(call'.op = "reshape" /\ call'.exc = "")
            => IF array'.dimensions = <<0>> THEN collapsed(array')
               ELSE all_zero(array', array'.dimensions, array'.bits_per_index)]_vars

\* an array that holds non-zero values in elements lying across bytes: its
\* reshape, directly or by way of the empty array, is all zero
C18_Witness ==
    /\ array.dimensions = <<3>> /\ array.bits_per_index = 19
    /\ calls = 2 /\ call.exc = ""
    /\ get(array, <<1>>) = (2 ^ 19) - 1 /\ get(array, <<2>>) = (2 ^ 19) - 1
    /\ all_zero(reshape(array, <<2, 3>>, 5), <<2, 3>>, 5)
    /\ all_zero(reshape(reshape(array, <<0>>, 0), <<3>>, 19), <<3>>, 19)

\* some index of position, the dimension length added to it when it is
\* negative, lies outside 0 .. length - 1
outside(dimensions, position) ==
    \E i \in 1 .. Len(dimensions) :
        position[i] >= dimensions[i] \/ position[i] < -dimensions[i]

\* get and set of a refuse position with the error exc and set changes nothing
refused(a, position, exc) ==
    /\ call_get(a, position).exc = exc
    /\ call_set(a, position, (2 ^ a.bits_per_index) - 1) = [a EXCEPT !.exc = exc]

\* C19: get and set, __getitem__ and __setitem__ raise IndexError and change
\* no byte when an index of a position of the array's number of dimensions
\* is out of range; a position with another number of components raises
\* ValueError (so does __setitem__ on an array of more than one dimension),
\* also when one of its indexes is out of range; the same holds through a
\* view; and every call the program made that raised left the array as it was
C19_OutOfRange ==
    /\ [](/\ \A c \in Coordinates(array.dimensions, 1) :
                outside(array.dimensions, c) => refused(array, c, "IndexError")
          /\ \A c \in WrongLength(array.dimensions) : refused(array, c, "ValueError")
          /\ refused(array, <<array.dimensions[1]>> \o array.dimensions, "ValueError")
          /\ \A idx \in {array.dimensions[1], (-array.dimensions[1]) - 1} :
                /\ getitem_exc(array, idx) = "IndexError"
                /\ \A v \in {0, 2 ^ array.bits_per_index} :
                    BitPackingArray_setitem(array, idx, v)
                        = [array EXCEPT !.exc = IF Len(array.dimensions) = 1
                                                 THEN "IndexError" ELSE "ValueError"]
          /\ Len(array.dimensions) > 1 =>
                \A k \in 0 .. (array.dimensions[1] - 1) :
                    \A c \in OutOfRange(Tail(array.dimensions))
                                \cup WrongLength(Tail(array.dimensions)) :
                        refused(seen_through(array, view(whole(array), k)), c,
                                IF Len(c) = Len(array.dimensions) - 1
                                THEN "IndexError" ELSE "ValueError"))
    /\ [][(call'.op \in {"get", "set", "setitem", "view set", "view setitem"}
            /\ call'.exc # "") => array' = array]_vars

\* a set with an index out of range raised IndexError and the value written
\* before it is still there
C19_Witness ==
    /\ array.dimensions = <<2, 3>>
    /\ calls = 2 /\ call.op = "set" /\ call.exc = "IndexError"
    /\ get(array, <<1, 2>>) = 31

\* values below 0 and values of 2^bits_per_index and more
too_wide(bits_per_index) ==
    UnfitValues(bits_per_index) \cup {-(2 ^ bits_per_index), (2 ^ bits_per_index) + 1}

\* a[idx] = v at every index of the 1-dimensional a, and a.append(v), raise
\* ValueError and leave a as it was
value_refused(a, v) ==
    /\ append(a, v) = [a EXCEPT !.exc = "ValueError"]
    /\ \A idx \in (-a.dimensions[1]) .. (a.dimensions[1] - 1) :
            BitPackingArray_setitem(a, idx, v) = [a EXCEPT !.exc = "ValueError"]

\* C20: arr[i] = v, at an index i of the array, and append(v) raise
\* ValueError and leave the buffer and the dimensions as they were whenever
\* v < 0 or v >= 2^bits_per_index, on the array and through its
\* 1-dimensional views; every element read lies in [0, 2^bits_per_index);
\* and every such call of the program that raised ValueError changed nothing
C20_ValueRange ==
    /\ [](/\ \A v \in too_wide(array.bits_per_index) :
                /\ value_refused(array, v)
                /\ Len(array.dimensions) = 2 =>
                    \A k \in 0 .. (array.dimensions[1] - 1) :
                        value_refused(seen_through(array, view(whole(array), k)), v)
                /\ Len(array.dimensions) = 3 =>
                    \A k \in 0 .. (array.dimensions[1] - 1) :
                        \A j \in 0 .. (array.dimensions[2] - 1) :
                            value_refused(
                                seen_through(array, view(view(whole(array), k), j)), v)
          /\ \A c \in Positions(array.dimensions) :
                call_get(array, c).exc = ""
                    => /\ 0 <= call_get(array, c).value
                       /\ call_get(array, c).value < 2 ^ array.bits_per_index)
    /\ [][(call'.op \in {"setitem", "append", "view setitem"} /\ call'.exc = "ValueError")
            => array' = array]_vars

\* arr[i] = v with v out of range raised ValueError, and the value written
\* by the call before it is still there
C20_Witness ==
    /\ array.dimensions = <<4>> /\ array.bits_per_index = 3
    /\ calls = 2 /\ call.op = "setitem" /\ call.exc = "ValueError"
    /\ get(array, <<3>>) = 7

\* reshape and append on the view h of a raise ValueError and leave the view
\* and a as they were
view_is_not_owner(a, h) ==
    /\ \A shape \in Shapes \cup RefusedShapes :
        /\ reshape(seen_through(a, h), shape[1], shape[2])
                = [seen_through(a, h) EXCEPT !.exc = "ValueError"]
        /\ written_through(a, h, reshape(seen_through(a, h), shape[1], shape[2]))
                = [a EXCEPT !.exc = "ValueError"]
    /\ \A v \in FittingValues(a.bits_per_index) \cup UnfitValues(a.bits_per_index) :
        /\ append(seen_through(a, h), v) = [seen_through(a, h) EXCEPT !.exc = "ValueError"]
        /\ written_through(a, h, append(seen_through(a, h), v))
                = [a EXCEPT !.exc = "ValueError"]

\* arguments with a dimension <= 0 or a width <= 0 that are not the empty shape
BadShapes == RefusedShapes \cup {<<<<0, 2>>, 3>>, <<<<0, 0>>, 3>>, <<<<2, 3>>, 0>>, <<<<4>>, -2>>}

---------------------------------------------------------------------------
\* properties of the sessions (Spec), continued

\* the shared buffer is the empty array: dimension (0,), no byte
released == extra_memory = FreedMemory /\ collapsed(extra_memory)

\* C22: when a session ends, by loss, by win, or by the player leaving it
\* while it waits or plays, the shared buffer has been reshaped to the empty
\* (0,) array before the next session is built or the menu is back: outside
\* a session that waits or plays the buffer is empty, every step that ends
\* a session leaves it empty, and every session is built from the empty
\* buffer and is the only one holding bytes
C22_BufferLifecycle ==
    /\ [](/\ ~Live => released
          /\ Live => extra_memory.dimensions = <<game.width * game.height>>)
    /\ [][/\ (Live /\ ~Live') => released'
          /\ pc' = "waiting" =>
                /\ pc \in {"menu", "lost", "won"}
                /\ released
                /\ S' \in Sessions[settings]]_vars

\* a session that ate a bug has ended by a loss and the buffer is empty
C22_Witness ==
    /\ pc = "lost" /\ ticks >= 2 /\ game.snake_spaces >= 6
    /\ extra_memory.dimensions = <<0>>
    /\ byte_count(extra_memory.byte_array) = 0

---------------------------------------------------------------------------
\* properties of Game.__init__ (SpecInit)

\* the bugs a board has room for beside the snake of five
capacity == (settings.width * settings.height) - 5

\* a requested number of bugs, cut down to the capacity
clamped(requested) == IF requested > capacity THEN capacity ELSE requested

\* C23: for requested min_bugs and max_bugs with 0 <= min_bugs <= max_bugs,
\* Game.__init__ raises nothing and stores each of them cut down to
\* width*height - 5; after it bug_spaces = max_bugs <= width*height - 5,
\* min_bugs <= max_bugs and available_bug_spaces = width*height - 5 - max_bugs >= 0
C23_Clamping ==
    /\ pc = "menu" =>
        Game(extra_memory, settings.width, settings.height,
             settings.min_bugs, settings.max_bugs) # {}
    /\ pc = "waiting" =>
        /\ game.min_bugs = clamped(settings.min_bugs)
        /\ game.max_bugs = clamped(settings.max_bugs)
        /\ game.bug_spaces = game.max_bugs
        /\ game.max_bugs <= capacity
        /\ 0 <= game.min_bugs /\ game.min_bugs <= game.max_bugs
        /\ game.available_bug_spaces = capacity - game.max_bugs
        /\ game.available_bug_spaces >= 0

\* 3 to 9 bugs were asked for on the board of 7 cells: both numbers are
\* stored as 2 and no free cell is left
C23_Witness ==
    /\ pc = "waiting"
    /\ settings.width = 7 /\ settings.height = 1
    /\ settings.min_bugs = 3 /\ settings.max_bugs = 9
    /\ game.min_bugs = 2 /\ game.max_bugs = 2 /\ game.bug_spaces = 2
    /\ game.available_bug_spaces = 0

\* the cells of the snake Game.__init__ lays: row height//2, columns
\* width//2 - 3 .. width//2 + 1
laid_snake ==
    {((game.height \div 2) * game.width) + col :
        col \in ((game.width \div 2) - 3) .. ((game.width \div 2) + 1)}

\* the cells at the partition positions lo .. hi
cells_at(lo, hi) == {partitioned_grid(S, i) : i \in lo .. hi}

\* the cells that carry the tag
cells_tagged(tag) == {c \in Cells : game_grid(S, c) = tag}

\* C24: initial state. Whatever the random draws, Game.__init__ leaves exactly
\* five cells tagged SNAKE_RIGHT, those of row height//2 and columns
\* width//2 - 3 .. width//2 + 1, the tail the leftmost and the head the
\* rightmost, at the last five partition positions; exactly max_bugs other
\* cells tagged BUG, at the positions just left of the snake's; every other
\* cell EMPTY, at the leftmost positions; future_bug_spaces = 0,
\* bug_spawn_cycle = 1 and bug_hint_idx the first position of the bug zone.
C24_InitialState ==
    pc = "waiting" =>
        LET total == game.width * game.height
            first_bug == total - 5 - game.max_bugs
        IN /\ Cardinality(laid_snake) = 5
           /\ laid_snake \subseteq Cells
           /\ cells_tagged(SNAKE_RIGHT) = laid_snake
           /\ game.tail = <<game.height \div 2, (game.width \div 2) - 3>>
           /\ game.head = <<game.height \div 2, (game.width \div 2) + 1>>
           /\ game.snake_spaces = 5
           /\ cells_at(total - 5, total - 1) = laid_snake
           /\ Cardinality(cells_tagged(BUG)) = game.max_bugs
           /\ cells_tagged(BUG) \cap laid_snake = {}
           /\ cells_at(first_bug, total - 6) = cells_tagged(BUG)
           /\ cells_tagged(EMPTY) = Cells \ (laid_snake \cup cells_tagged(BUG))
           /\ cells_at(0, first_bug - 1) = cells_tagged(EMPTY)
           /\ game.available_bug_spaces = first_bug
           /\ game.bug_spaces = game.max_bugs
           /\ game.future_bug_spaces = 0
           /\ game.bug_spawn_cycle = 1
           /\ game.bug_hint_idx = first_bug

\* a board of 3 rows built with 2 bugs, neither of them left where the
\* identity partition had a cell of the bug zone
C24_Witness ==
    /\ pc = "waiting"
    /\ game.width = 6 /\ game.height = 3
    /\ game.max_bugs = 2
    /\ game.available_bug_spaces = 11
    /\ cells_tagged(BUG) \cap {11, 12} = {}
    /\ Cardinality(cells_tagged(EMPTY)) = 11

---------------------------------------------------------------------------
\* properties of the sessions (Spec): move_into_future_bug

same_sizes(g, h) ==
    /\ h.snake_spaces = g.snake_spaces
    /\ h.available_bug_spaces = g.available_bug_spaces
    /\ h.future_bug_spaces = g.future_bug_spaces
    /\ h.bug_spaces = g.bug_spaces
    /\ h.bug_spawn_cycle = g.bug_spawn_cycle
    /\ h.bug_hint_idx = g.bug_hint_idx

\* the cells tagged BUG + bug_spawn_cycle
hidden_bugs(s) ==
    {c \in 0 .. ((s.g.width * s.g.height) - 1) : game_grid(s, c) = BUG + s.g.bug_spawn_cycle}

\* the cell the draw r names: the old tail cell, or the cell at position r
drawn_cell(s, r) ==
    IF r = s.g.available_bug_spaces THEN cell(s, s.g.tail) ELSE partitioned_grid(s, r)

\* what C25 says of the state t that follows s when the head entered
\* next_head_coord in direction d and the draw was r
relocated(s, t, next_head_coord, d, r) ==
    /\ t.g.head = next_head_coord
    /\ game_grid(t, cell(s, next_head_coord)) = d
    /\ t.g.tail = get_next_coord(s.g.tail, game_grid(s, cell(s, s.g.tail)))
    /\ same_sizes(s.g, t.g)
    /\ Cardinality(hidden_bugs(t)) = Cardinality(hidden_bugs(s))
    /\ hidden_bugs(t) = (hidden_bugs(s) \ {cell(s, next_head_coord)}) \cup {drawn_cell(s, r)}
    /\ r < s.g.available_bug_spaces =>
        /\ game_grid(s, drawn_cell(s, r)) = EMPTY
        /\ game_grid(t, cell(s, s.g.tail)) = EMPTY

\* the head is next to a hidden bug, which lies in direction d
beside_hidden_bug(d) ==
    /\ pc = "playing"
    /\ on_board(game, get_next_coord(game.head, d))
    /\ game_grid(S, cell(S, get_next_coord(game.head, d))) = BUG + game.bug_spawn_cycle

\* C25: move_into_future_bug changes no zone size. Entering a cell tagged
\* BUG + bug_spawn_cycle makes it the head, advances the tail one step, leaves
\* the six counters and the number of cells so tagged as they were; the new
\* hidden bug is the old tail cell if the draw was available_bug_spaces,
\* otherwise the free cell at the drawn position, the old tail cell turning EMPTY.
C25_FutureBugRelocated ==
    /\ [](\A d \in SNAKE_UP .. SNAKE_LEFT :
            beside_hidden_bug(d) =>
                \A r \in 0 .. game.available_bug_spaces :
                    relocated(S, move_into_future_bug(S, get_next_coord(game.head, d), d, r),
                              get_next_coord(game.head, d), d, r))
    /\ [][(Moved /\ entered_tag = BUG + game.bug_spawn_cycle) =>
            \E d \in SNAKE_UP .. SNAKE_LEFT :
                /\ went(d)
                /\ \E r \in 0 .. game.available_bug_spaces :
                        relocated(S, S', game'.head, d, r)]_vars

\* a bug was eaten, a free cell is left, and the hidden bug lies in the cell
\* the tail has just left
C25_Witness ==
    /\ pc = "playing"
    /\ ticks >= 2
    /\ game.snake_spaces >= 6
    /\ game.future_bug_spaces >= 1
    /\ game.available_bug_spaces >= 1
    /\ \E c \in Cells :
        /\ game_grid(S, c) = BUG + game.bug_spawn_cycle
        /\ \E d \in SNAKE_UP .. SNAKE_LEFT :
            get_next_coord(<<c \div game.width, c % game.width>>, d) = game.tail

---------------------------------------------------------------------------
\* properties of swap on its own (SpecSwap), continued

\* t is s with the partition entries at i and j exchanged, the key entries of
\* the two exchanged cells rewritten, and nothing else touched
exchanged(s, t, i, j) ==
    /\ partitioned_grid(t, i) = partitioned_grid(s, j)
    /\ partitioned_grid(t, j) = partitioned_grid(s, i)
    /\ \A k \in Cells \ {i, j} : partitioned_grid(t, k) = partitioned_grid(s, k)
    /\ key_grid(t, partitioned_grid(s, i)) = j
    /\ key_grid(t, partitioned_grid(s, j)) = i
    /\ \A c \in Cells \ {partitioned_grid(s, i), partitioned_grid(s, j)} :
            key_grid(t, c) = key_grid(s, c)
    /\ \A c \in Cells : game_grid(t, c) = game_grid(s, c)
    /\ t.g = s.g

\* C26: swap(i, j) exchanges the partition entries at i and j, rewrites the key
\* entries of the two exchanged cells, touches no other partition or key entry
\* and no game-state field, and returns the two values as they were at i and
\* j; swap(i, i) changes nothing and swap(i, j) done twice restores the state.
C26_SwapExact ==
    /\ []((pc = "built" /\ swaps < MaxSwaps) =>
            \A i \in Cells : \A j \in Cells :
                LET once == swap(S, i, j)
                IN /\ exchanged(S, once, i, j)
                   /\ swap_returns(S, i, j) = <<partitioned_grid(S, i), partitioned_grid(S, j)>>
                   /\ i = j => once = S
                   /\ swap(once, i, j) = S)
    /\ [][swaps' = swaps + 1 =>
            \E i \in Cells : \E j \in Cells : exchanged(S, S', i, j)]_vars

\* two swaps were made and a cell of the snake now lies at the first position
\* of the partition, where the key grid finds it
C26_Witness ==
    /\ pc = "built"
    /\ swaps = 2
    /\ is_snake_tag(game_grid(S, partitioned_grid(S, 0)))
    /\ key_grid(S, partitioned_grid(S, 0)) = 0
    /\ game.available_bug_spaces >= 1

---------------------------------------------------------------------------
\* properties of the sessions (Spec): the hinted bug

\* the cell the cursor names
hinted_cell(s) == partitioned_grid(s, s.g.bug_hint_idx)

\* the cursor names a cell of the current-bug zone that carries a current-bug tag
hints_live_bug(s) ==
    /\ s.g.available_bug_spaces + s.g.future_bug_spaces <= s.g.bug_hint_idx
    /\ s.g.bug_hint_idx
           < s.g.available_bug_spaces + s.g.future_bug_spaces + s.g.bug_spaces
    /\ BUG <= game_grid(s, hinted_cell(s))
    /\ game_grid(s, hinted_cell(s)) < BUG + s.g.bug_spawn_cycle

\* the address, before the move, of the cell the head entered
entered_idx == key_grid(S, cell(S, game'.head))

\* the address of the bug zone next to the snake zone, before the move
touching_idx ==
    (game.available_bug_spaces + game.future_bug_spaces + game.bug_spaces) - 1

\* a bug was eaten that the cursor named, or while the cursor named the bug
\* next to the snake zone, and a current bug is left
redirected ==
    (/\ Ate /\ pc' = "playing"
     /\ game.bug_hint_idx \in {entered_idx, touching_idx}
     /\ game'.bug_spaces >= 1) =>
        /\ hints_live_bug(S')
        /\ hinted_cell(S') # cell(S, game'.head)
        /\ IF game.bug_hint_idx = entered_idx
           THEN game'.bug_hint_idx = game'.available_bug_spaces + game'.future_bug_spaces
           ELSE /\ game'.bug_hint_idx = entered_idx
                /\ hinted_cell(S') = hinted_cell(S)

\* C27: the hinted location is a live bug. While a session waits or plays with
\* bug_spaces >= 1, bug_hint_idx lies in the current-bug zone and the cell at
\* it carries a tag in [BUG, BUG + bug_spawn_cycle); eating the hinted bug, or
\* a bug while the cursor is on the address next to the snake zone, puts the
\* cursor on another current bug when one is left.
C27_HintIsLiveBug ==
    /\ []((Live /\ game.bug_spaces >= 1) => hints_live_bug(S))
    /\ [][redirected]_vars

\* the hinted bug was eaten in the first spawn cycle; the cursor is on the
\* first address of the bug zone, above a hidden bug
C27_Witness ==
    /\ pc = "playing"
    /\ game.snake_spaces = 6
    /\ game.bug_spawn_cycle = 1
    /\ game.future_bug_spaces = 1
    /\ game.bug_spaces >= 1
    /\ game.bug_hint_idx = game.available_bug_spaces + game.future_bug_spaces
    /\ game_grid(S, hinted_cell(S)) = BUG

---------------------------------------------------------------------------
\* properties of the grids written on their own (SpecGrid)

\* the three views of a Game
views(g) == <<g.game_grid, g.key_grid, g.partitioned_grid>>

view_named(op) ==
    IF op = "game_grid" THEN 1 ELSE IF op = "key_grid" THEN 2 ELSE 3

\* the bits of the record at cell c that lie outside the field of view h
outside_field(m, h, c) ==
    <<LowBits(BitPackingArray_getitem(m, c), h.start_bit),
      Shr(BitPackingArray_getitem(m, c), h.start_bit + h.bits_to_read)>>

\* m2 is m after a write of view k at cell p: the other two views read at p
\* what they read, all three read at every other cell what they read, and of
\* the records only the field of view k at p can differ
isolated(m, m2, g, k, p) ==
    /\ \A j \in 1 .. 3 : \A c \in 0 .. ((g.width * g.height) - 1) :
            (j # k \/ c # p) =>
                GridHelper_getitem(m2, views(g)[j], c) = GridHelper_getitem(m, views(g)[j], c)
    /\ \A c \in (0 .. ((g.width * g.height) - 1)) \ {p} :
            BitPackingArray_getitem(m2, c) = BitPackingArray_getitem(m, c)
    /\ outside_field(m2, views(g)[k], p) = outside_field(m, views(g)[k], p)
    /\ m2.dimensions = m.dimensions
    /\ m2.bits_per_index = m.bits_per_index

\* the values view h can hold
fitting(h) ==
    IF h.is_game_grid THEN 0 .. ((2 ^ h.bits_to_read) - 1)
    ELSE 0 .. ((2 ^ h.bits_to_read) - 2)

\* C28: field isolation. A write of one of the three grids at cell p changes
\* only that grid's field of the record at p: the other two grids read at p
\* what they read before, and all three read at every other cell what they
\* read before.
C28_FieldIsolation ==
    /\ []((pc = "grid" /\ calls = 0) =>
            \A k \in 1 .. 3 : \A p \in Cells : \A v \in fitting(views(game)[k]) :
                /\ GridHelper_setitem(extra_memory, views(game)[k], p, v).exc = ""
                /\ isolated(extra_memory,
                            GridHelper_setitem(extra_memory, views(game)[k], p, v),
                            game, k, p))
    /\ [][(pc = "grid" /\ calls' = calls + 1) =>
            IF call'.exc = ""
            THEN isolated(extra_memory, extra_memory', game, view_named(call'.op), call'.pos)
            ELSE extra_memory' = extra_memory]_vars

\* on a board of two rows the key grid was written at the first cell and then
\* the game grid at a cell of the last row, whose key still names another cell
C28_Witness ==
    /\ pc = "grid"
    /\ calls = 2
    /\ call.op = "game_grid" /\ call.exc = "" /\ call.pos = game.width + 4
    /\ game.height = 2
    /\ game_grid(S, call.pos) = call.value
    /\ key_grid(S, call.pos) # call.pos
    /\ key_grid(S, 0) = (2 * game.width) - 1

\* the coordinates of the board
Coords == {<<row, col>> : row \in 0 .. (game.height - 1), col \in 0 .. (game.width - 1)}

\* every record of the buffer is zero
zeroed == \A c \in Cells : BitPackingArray_getitem(extra_memory, c) = 0

\* the all-zero buffer reads as the identity in the key grid and the partition
\* grid and as EMPTY in the game grid
reads_as_identity ==
    /\ \A c \in Cells :
        /\ key_grid(S, c) = c
        /\ partitioned_grid(S, c) = c
        /\ game_grid(S, c) = EMPTY
    /\ \A coord \in Coords :
        /\ GridHelper_read(extra_memory, game.key_grid, coord) = (coord[1] * game.width) + coord[2]
        /\ GridHelper_read(extra_memory, game.partitioned_grid, coord)
               = (coord[1] * game.width) + coord[2]
        /\ GridHelper_read(extra_memory, game.game_grid, coord) = EMPTY

\* view h reads v at p after v was written at p, given as integers
reads_back(h, p, v) ==
    /\ GridHelper_write(extra_memory, h, <<p>>, <<v>>).exc = ""
    /\ GridHelper_read(GridHelper_write(extra_memory, h, <<p>>, <<v>>), h, <<p>>) = v

\* the same given as pairs: the pair names the cell row * width + col
reads_back_at(h, coord, value) ==
    /\ GridHelper_write(extra_memory, h, coord, value)
           = GridHelper_write(extra_memory, h, <<(coord[1] * game.width) + coord[2]>>,
                              <<(value[1] * game.width) + value[2]>>)
    /\ GridHelper_read(GridHelper_write(extra_memory, h, coord, value), h, coord)
           = (value[1] * game.width) + value[2]
    /\ GridHelper_read(GridHelper_write(extra_memory, h, coord, value), h,
                       <<(coord[1] * game.width) + coord[2]>>)
           = (value[1] * game.width) + value[2]

\* C29: zero means self. On the all-zero buffer the key grid and the partition
\* grid read p at every cell p and the game grid reads EMPTY; and a key or
\* partition grid written v at p, for v in [0, width*height), reads v at p,
\* also when v = p and when v = 0, a pair (row, col) naming the cell
\* row*width + col.
C29_ZeroMeansSelf ==
    /\ []((pc = "grid" /\ zeroed) => reads_as_identity)
    /\ []((pc = "grid" /\ calls = 0) =>
            \A k \in 2 .. 3 :
                /\ \A p \in Cells : \A v \in Cells : reads_back(views(game)[k], p, v)
                /\ \A coord \in Coords : \A value \in Coords :
                        reads_back_at(views(game)[k], coord, value))
    /\ [][(pc = "grid" /\ calls' = calls + 1 /\ call'.op # "game_grid" /\ call'.exc = "") =>
            GridHelper_getitem(extra_memory', views(game)[view_named(call'.op)], call'.pos)
                = call'.value]_vars

\* the all-zero buffer was written 0 in the partition grid at a cell of the
\* last row, after a write of the same grid at the first cell: the cell
\* reads 0 and the cells between still read themselves
C29_Witness ==
    /\ pc = "grid"
    /\ calls = 2
    /\ call.op = "partitioned_grid" /\ call.exc = "" /\ call.value = 0
    /\ call.pos = ((game.height - 1) * game.width) + 4
    /\ partitioned_grid(S, call.pos) = 0
    /\ partitioned_grid(S, 0) = 0
    /\ \A c \in Cells \ {0, call.pos} :
        /\ BitPackingArray_getitem(extra_memory, c) = 0
        /\ partitioned_grid(S, c) = c

---------------------------------------------------------------------------
\* properties of the sessions (Spec): the direction of a move

\* the tag of the head cell
head_tag == game_grid(S, cell(S, game.head))

\* the segment directly behind the head
behind_head == get_next_coord(game.head, Opposite(head_tag))

\* C30: a direction key that reverses the head is ignored. Whatever keys
\* arrive in a frame, the direction of the move is never the opposite of the
\* direction stored in the head cell when the frame begins, so the head
\* never enters the segment directly behind it.
C30_NoReversal ==
    /\ [](pc = "playing" =>
            /\ current_head_direction = head_tag
            /\ is_snake_tag(game_grid(S, cell(S, behind_head)))
            /\ \A events \in KeySequences :
                /\ move_direction(S, current_head_direction, events) \in SNAKE_UP .. SNAKE_LEFT
                /\ move_direction(S, current_head_direction, events) # Opposite(head_tag)
                /\ get_next_coord(game.head,
                                  move_direction(S, current_head_direction, events))
                       # behind_head)
    /\ [][Moved =>
            /\ game'.head # behind_head
            /\ \E d \in SNAKE_UP .. SNAKE_LEFT :
                /\ went(d)
                /\ d # Opposite(head_tag)
                /\ pc' = "playing" => game_grid(S', cell(S, game'.head)) = d]_vars

\* the snake has turned twice and now heads left, next to its own body
C30_Witness ==
    /\ pc = "playing"
    /\ ticks >= 2
    /\ current_head_direction = SNAKE_LEFT
    /\ game_grid(S, cell(S, game.head)) = SNAKE_LEFT
    /\ game_grid(S, cell(S, get_next_coord(game.head, SNAKE_RIGHT))) = SNAKE_LEFT

---------------------------------------------------------------------------
\* properties of the sessions (Spec): the widths of the fields

\* the largest value a field of view h holds
field_max(h) == (2 ^ h.bits_to_read) - 1

\* the widths Game.__init__ computes for the board and the bugs of g
widths_as_computed(g) ==
    /\ g.game_grid.bits_to_read
           = bit_length(possible_bug_spawn_cycles(g.width * g.height, 5,
                                                  g.min_bugs, g.max_bugs) + 5)
    /\ g.key_grid.bits_to_read = bit_length(g.width * g.height)
    /\ g.partitioned_grid.bits_to_read = bit_length(g.width * g.height)

\* a move can still write the tag BUG + bug_spawn_cycle: a hidden bug can be
\* placed or one is there to be moved
writes_hidden_tag(g) ==
    \/ g.future_bug_spaces >= 1
    \/ g.available_bug_spaces > 0 /\ g.max_bugs # g.min_bugs

\* the move play_game makes in direction d raises nothing, whatever is drawn
move_raises_nothing(d) ==
    LET next_head_coord == get_next_coord(game.head, d)
        entered == game_grid(S, cell(S, next_head_coord))
    IN IF loses(S, next_head_coord) THEN TRUE
       ELSE IF entered = EMPTY
       THEN move_into_empty(S, next_head_coord, d).m.exc = ""
       ELSE IF entered = 5 + game.bug_spawn_cycle
       THEN \A r \in 0 .. game.available_bug_spaces :
                move_into_future_bug(S, next_head_coord, d, r).m.exc = ""
       ELSE \A r \in 0 .. (IF game.available_bug_spaces > 0
                           THEN game.available_bug_spaces - 1 ELSE 0) :
                move_into_bug(S, next_head_coord, d, r).m.exc = ""

\* C31: the field widths suffice. In Game.__init__ and in play no write of a
\* grid raises the value-range error: every tag written, at most
\* BUG + bug_spawn_cycle at the time of the write, is at most
\* 2^game_grid_bits - 1 with game_grid_bits = bit_length(possible_bug_spawn_cycles + 5),
\* and every cell or address written to the key and partition grids, plus 1,
\* is at most 2^bit_length(width*height) - 1.
C31_WidthsSuffice ==
    /\ pc = "menu" => \A s \in Sessions[settings] : s.m.exc = ""
    /\ Live =>
        /\ extra_memory.exc = ""
        /\ widths_as_computed(game)
        /\ \A c \in Cells : game_grid(S, c) <= field_max(game.game_grid)
        /\ SNAKE_LEFT <= field_max(game.game_grid)
        /\ writes_hidden_tag(game) => BUG + game.bug_spawn_cycle <= field_max(game.game_grid)
        /\ (game.width * game.height) - 1 + 1 <= field_max(game.key_grid)
        /\ (game.width * game.height) - 1 + 1 <= field_max(game.partitioned_grid)
    /\ pc = "playing" => \A d \in Directions : move_raises_nothing(d)

\* in the third spawn cycle a hidden bug was placed with the tag BUG + 3
C31_Witness ==
    /\ pc = "playing"
    /\ game.bug_spawn_cycle = 3
    /\ game.future_bug_spaces >= 1
    /\ \E c \in Cells : game_grid(S, c) = BUG + 3

---------------------------------------------------------------------------
\* properties of the sessions (Spec): the chain of the snake

\* the coordinates met from coord on, stepping at most steps times in the
\* direction stored in the cell; the walk stops where no direction is stored
RECURSIVE chain_from(_, _, _)
chain_from(s, coord, steps) ==
    IF steps = 0 \/ ~on_board(s.g, coord) THEN <<coord>>
    ELSE IF ~is_snake_tag(game_grid(s, cell(s, coord))) THEN <<coord>>
    ELSE <<coord>> \o chain_from(s, get_next_coord(coord, game_grid(s, cell(s, coord))),
                                 steps - 1)

\* the walk from the tail, snake_spaces - 1 steps long
snake_chain == chain_from(S, game.tail, game.snake_spaces - 1)

\* the cells that carry a snake direction
snake_cells == {c \in Cells : is_snake_tag(game_grid(S, c))}

\* the cells at the last snake_spaces positions of the partition
snake_zone ==
    {partitioned_grid(S, i) :
        i \in ((game.width * game.height) - game.snake_spaces) .. ((game.width * game.height) - 1)}

\* C32: the chain of the snake. While a session waits or plays, head and tail
\* are on the board, and the walk from the tail along the stored directions
\* reaches the head after exactly snake_spaces - 1 steps, over snake_spaces
\* distinct cells, which are the cells tagged with a snake direction and the
\* cells of the snake zone of the partition.
C32_SnakeChain ==
    Live =>
        LET chain == snake_chain
            chain_cells == {cell(S, chain[i]) : i \in 1 .. Len(chain)}
            tagged == snake_cells
        IN /\ on_board(game, game.head)
           /\ on_board(game, game.tail)
           /\ Len(chain) = game.snake_spaces
           /\ chain[Len(chain)] = game.head
           /\ \A i \in 1 .. (Len(chain) - 1) : chain[i] # game.head
           /\ \A i \in 1 .. Len(chain) : on_board(game, chain[i])
           /\ Cardinality(chain_cells) = game.snake_spaces
           /\ chain_cells = tagged
           /\ snake_zone = tagged

\* a snake of seven cells that has turned: its head and its tail cell store
\* different directions
C32_Witness ==
    /\ pc = "playing"
    /\ game.snake_spaces >= 7
    /\ game.tail # <<game.height \div 2, (game.width \div 2) - 3>>
    /\ game_grid(S, cell(S, game.head)) # game_grid(S, cell(S, game.tail))
    /\ Len(snake_chain) = game.snake_spaces

---------------------------------------------------------------------------
\* properties of the sessions (Spec): the number of bugs

\* the bugs on the grid, hidden ones included, are at most max_bugs, and
\* exactly max_bugs with at least min_bugs of them visible while a cell is free
population_ok(g) ==
    /\ g.bug_spaces + g.future_bug_spaces <= g.max_bugs
    /\ g.available_bug_spaces > 0 =>
        /\ g.bug_spaces + g.future_bug_spaces = g.max_bugs
        /\ g.min_bugs <= g.bug_spaces
        /\ g.bug_spaces <= g.max_bugs

\* a bug eaten while a cell is free is replaced by one new bug, and the
\* visible bugs are made max_bugs when they would fall below min_bugs
replaced ==
    (Ate /\ game.available_bug_spaces > 0) =>
        /\ game'.available_bug_spaces = game.available_bug_spaces - 1
        /\ game'.bug_spaces + game'.future_bug_spaces
               = game.bug_spaces + game.future_bug_spaces
        /\ IF game.bug_spaces - 1 < game.min_bugs
           THEN game'.bug_spaces = game.max_bugs /\ game'.future_bug_spaces = 0
           ELSE /\ game'.bug_spaces = game.bug_spaces - 1
                /\ game'.future_bug_spaces = game.future_bug_spaces + 1

\* C33: the bounds of the bug population. Between ticks
\* bug_spaces + future_bug_spaces <= max_bugs, and while available_bug_spaces > 0,
\* bug_spaces + future_bug_spaces = max_bugs and min_bugs <= bug_spaces <= max_bugs:
\* an eaten bug is replaced by one new bug as long as a cell is free, and the
\* visible bugs are refilled to max_bugs when they would drop below min_bugs.
C33_BugPopulation == [](HasGame => population_ok(game)) /\ [][replaced]_vars

\* bugs were eaten until the visible ones were refilled, and a cell is still free
C33_Witness ==
    /\ pc = "playing"
    /\ game.min_bugs < game.max_bugs
    /\ game.bug_spawn_cycle >= 2
    /\ game.available_bug_spaces > 0
    /\ game.bug_spaces = game.max_bugs
    /\ game.snake_spaces >= 7

\* the last visible bug goes only with the move that wins
last_bug_wins ==
    (/\ pc = "playing"
     /\ game.min_bugs >= 1
     /\ pc' \in {"playing", "lost", "won"}
     /\ game'.bug_spaces = 0) =>
        /\ game.bug_spaces = 1
        /\ pc' = "won"
        /\ game'.snake_spaces = game.width * game.height

\* C34: an edible bug exists until the game is won. With min_bugs >= 1 after
\* clamping, every state with snake_spaces < width * height has
\* bug_spaces >= 1; bug_spaces reaches 0 only by the move that makes
\* snake_spaces = width * height.
C34_EdibleBug ==
    /\ []((HasGame /\ game.min_bugs >= 1 /\ game.snake_spaces < game.width * game.height)
            => game.bug_spaces >= 1)
    /\ [][last_bug_wins]_vars

\* a session with min_bugs >= 1 was won by eating its last bug, after a fold
C34_Witness ==
    /\ pc = "won"
    /\ game.min_bugs >= 1
    /\ game.bug_spaces = 0
    /\ game.future_bug_spaces = 0
    /\ game.bug_spawn_cycle >= 2
    /\ game.snake_spaces = game.width * game.height

====
